---- MODULE Spec2Model ----
(***************************************************************************)
(* Concurrent block-body validator (BlockValidator, async_validator.rs).   *)
(*                                                                         *)
(* Curve points are modelled by the free abelian group Z x Z: a Pedersen   *)
(* commitment k.G + v.H is the pair <<k, v>>, a public key k.G is the      *)
(* integer k.  Elements of a block are named by identifiers of a small     *)
(* catalogue; the catalogue gives each element its fields.  Sequences are  *)
(* 1-based here (0-based in the source), and an Option<usize> index is 0   *)
(* for None.                                                               *)
(***************************************************************************)
EXTENDS Integers, Sequences, FiniteSets, TLC

VARIABLES
    block,              \* the Block handed to validate_body
    concurrency,        \* BlockValidator.concurrency
    bypass_range_proof_verification,
    db,                 \* contents of the blockchain database
    db_readers,         \* number of read snapshots currently held
    pc,                 \* position of validate_body / validate_block_body
    result,             \* what validate_body returned
    kernels_task,       \* the spawn_blocking task of start_kernel_validation
    inputs_task,        \* the spawn_blocking task of start_input_validation
    queue,              \* Arc<Mutex<Vec<(usize, TransactionOutput)>>>: the vector
    queue_lock,         \* the mutex: 0 when free, or the worker that holds the guard
    output_tasks,       \* the output workers (FuturesUnordered)
    outputs_task,       \* the merge task of start_output_validation
    checked,            \* log: which check ran on which output index
    first,              \* record of the previous validate_body call
    account,            \* chunk_command: the account, a u64
    instruction,        \* chunk_command: the Instruction, as the byte as_byte() gives
    data,               \* chunk_command: the chunks, Vec<Vec<u8>>
    commands,           \* chunk_command: the Vec<Command> returned
    chunk_pc            \* chunk_command: "idle", "called" or "returned"

\* The variables of the ledger wallet's command builder.
ledger == <<account, instruction, data, commands, chunk_pc>>

vars == <<block, concurrency, bypass_range_proof_verification, db, db_readers, pc,
          result, kernels_task, inputs_task, queue, queue_lock, output_tasks, outputs_task,
          checked, first, ledger>>

-----------------------------------------------------------------------------
(* Bounds of the model.                                                    *)

MaxInputs == 2

MaxOutputs == 2

MaxKernels == 2

-----------------------------------------------------------------------------
(* Curve arithmetic.                                                       *)

CommitmentDefault == <<0, 0>>

PublicKeyDefault == 0

CAdd(a, b) == <<a[1] + b[1], a[2] + b[2]>>

CSub(a, b) == <<a[1] - b[1], a[2] - b[2]>>

commit_value(k, v) == <<k, v>>

-----------------------------------------------------------------------------
(* The catalogue of transaction elements.  "ord" is the rank of the        *)
(* element under the canonical order of its kind: two elements with the    *)
(* same rank compare equal (outputs and inputs are compared by commitment, *)
(* kernels by excess signature).                                           *)

KernelIds == {"KC", "K2", "KL", "KB", "KCL"}

Kernel(id) ==
    CASE id = "KC" -> [ord |-> 1, excess |-> <<1, 0>>, fee |-> 0, lock_height |-> 0,
                       coinbase |-> TRUE, sig_ok |-> TRUE]
      [] id = "K2" -> [ord |-> 2, excess |-> <<1, 0>>, fee |-> 1, lock_height |-> 2,
                       coinbase |-> FALSE, sig_ok |-> TRUE]
      [] id = "KL" -> [ord |-> 3, excess |-> <<1, 0>>, fee |-> 0, lock_height |-> 3,
                       coinbase |-> FALSE, sig_ok |-> TRUE]
      [] id = "KB" -> [ord |-> 4, excess |-> <<1, 0>>, fee |-> 0, lock_height |-> 0,
                       coinbase |-> TRUE, sig_ok |-> FALSE]
      [] id = "KCL" -> [ord |-> 5, excess |-> <<1, 0>>, fee |-> 0, lock_height |-> 3,
                       coinbase |-> TRUE, sig_ok |-> TRUE]

OutputIds == {"O0", "OC5", "OC5r", "OC6", "O2", "O2r", "OS", "OD"}

Output(id) ==
    CASE id = "O0" -> [ord |-> 0, commitment |-> <<0, 0>>, coinbase |-> FALSE,
                        sender_offset_public_key |-> 0, meta_sig_ok |-> TRUE,
                        range_proof_ok |-> TRUE, hash |-> "hO0"]
      [] id = "OC5" -> [ord |-> 1, commitment |-> <<1, 5>>, coinbase |-> TRUE,
                        sender_offset_public_key |-> 7, meta_sig_ok |-> TRUE,
                        range_proof_ok |-> TRUE, hash |-> "hOC5"]
      [] id = "OC5r" -> [ord |-> 1, commitment |-> <<1, 5>>, coinbase |-> TRUE,
                        sender_offset_public_key |-> 7, meta_sig_ok |-> TRUE,
                        range_proof_ok |-> FALSE, hash |-> "hOC5"]
      [] id = "OC6" -> [ord |-> 2, commitment |-> <<1, 6>>, coinbase |-> TRUE,
                        sender_offset_public_key |-> 7, meta_sig_ok |-> TRUE,
                        range_proof_ok |-> TRUE, hash |-> "hOC6"]
      [] id = "O2" -> [ord |-> 3, commitment |-> <<3, 3>>, coinbase |-> FALSE,
                        sender_offset_public_key |-> 3, meta_sig_ok |-> TRUE,
                        range_proof_ok |-> TRUE, hash |-> "hO2"]
      [] id = "O2r" -> [ord |-> 3, commitment |-> <<3, 3>>, coinbase |-> FALSE,
                        sender_offset_public_key |-> 3, meta_sig_ok |-> TRUE,
                        range_proof_ok |-> FALSE, hash |-> "hO2"]
      [] id = "OS" -> [ord |-> 4, commitment |-> <<4, 3>>, coinbase |-> FALSE,
                        sender_offset_public_key |-> 3, meta_sig_ok |-> FALSE,
                        range_proof_ok |-> TRUE, hash |-> "hOS"]
      [] id = "OD" -> [ord |-> 5, commitment |-> <<5, 3>>, coinbase |-> FALSE,
                        sender_offset_public_key |-> 3, meta_sig_ok |-> TRUE,
                        range_proof_ok |-> TRUE, hash |-> "hOD"]

InputIds == {"I0", "I1", "I2", "IU1", "IU2", "IS", "IM", "IX"}

Input(id) ==
    CASE id = "I0" -> [ord |-> 0, commitment |-> <<0, 0>>, output_hash |-> "hI0",
                       script_key |-> 0, script_ok |-> TRUE, maturity |-> 0]
      [] id = "I1" -> [ord |-> 1, commitment |-> <<2, 3>>, output_hash |-> "hI1",
                       script_key |-> 3, script_ok |-> TRUE, maturity |-> 0]
      [] id = "I2" -> [ord |-> 2, commitment |-> <<3, 3>>, output_hash |-> "hO2",
                       script_key |-> 3, script_ok |-> TRUE, maturity |-> 0]
      [] id = "IU1" -> [ord |-> 3, commitment |-> <<4, 3>>, output_hash |-> "hU1",
                       script_key |-> 3, script_ok |-> TRUE, maturity |-> 0]
      [] id = "IU2" -> [ord |-> 5, commitment |-> <<6, 3>>, output_hash |-> "hU2",
                       script_key |-> 3, script_ok |-> TRUE, maturity |-> 0]
      [] id = "IS" -> [ord |-> 4, commitment |-> <<5, 3>>, output_hash |-> "hIS",
                       script_key |-> 3, script_ok |-> FALSE, maturity |-> 0]
      [] id = "IM" -> [ord |-> 6, commitment |-> <<7, 3>>, output_hash |-> "hIM",
                       script_key |-> 3, script_ok |-> TRUE, maturity |-> 3]
      [] id = "IX" -> [ord |-> 7, commitment |-> <<8, 3>>, output_hash |-> "hIX",
                       script_key |-> 3, script_ok |-> TRUE, maturity |-> 0]

\* The database snapshot all calls see: unspent outputs and spent outputs.
InitialDb == [utxos |-> {"hI0", "hI1", "hIS", "hIM", "hOD"}, stxos |-> {"hIX"}]

-----------------------------------------------------------------------------
(* Errors and results.  A ValidationError is a record: its variant and,    *)
(* for UnknownInputs, the list of hashes it carries.                       *)

NoError == [kind |-> "", hashes |-> <<>>]

Err(kind) == [kind |-> kind, hashes |-> <<>>]

UnknownInputs(list) == [kind |-> "UnknownInputs", hashes |-> list]

\* The ValidationError a JoinError (the task panicked) is converted to by `?`.
WorkerPanic == Err("WorkerPanic")

\* The value of queue_lock for a mutex poisoned by a panic of its holder.
LockPoisoned == -1

IsOk(r) == r.err = NoError

-----------------------------------------------------------------------------
(* Helpers and collaborators of the validator (validation::helpers, the    *)
(* consensus manager, the database service).                               *)

InputWeight == 1

OutputWeight == 1

KernelWeight == 1

MaxBlockWeight == 5

\* rules.emission: the block subsidy at a height.
Emission(height) == 5

RECURSIVE SumFees(_)
SumFees(kernels) ==
    IF kernels = <<>> THEN 0
    ELSE Kernel(Head(kernels)).fee + SumFees(Tail(kernels))

calculate_coinbase_and_fees(height, kernels) == Emission(height) + SumFees(kernels)

check_block_weight(b) ==
    IF Len(b.inputs) * InputWeight + Len(b.outputs) * OutputWeight
           + Len(b.kernels) * KernelWeight > MaxBlockWeight
    THEN Err("BlockTooLarge")
    ELSE NoError

\* Strictly ascending under the canonical order; ranks gives each element's rank.
is_all_unique_and_sorted(ranks) ==
    \A i \in 2..Len(ranks) : ranks[i - 1] < ranks[i]

OutputRanks(outputs) == [i \in 1..Len(outputs) |-> Output(outputs[i]).ord]

InputRanks(inputs) == [i \in 1..Len(inputs) |-> Input(inputs[i]).ord]

KernelRanks(kernels) == [i \in 1..Len(kernels) |-> Kernel(kernels[i]).ord]

check_input_is_utxo(d, input) ==
    IF Input(input).output_hash \in d.utxos THEN NoError
    ELSE IF Input(input).output_hash \in d.stxos THEN Err("ContainsSTXO")
    ELSE Err("UnknownInput")

check_not_duplicate_txo(d, output) ==
    IF Output(output).hash \in (d.utxos \cup d.stxos) THEN Err("ContainsTxO")
    ELSE NoError

check_coinbase_reward(header, total_fees, coinbase_kernel, coinbase_output) ==
    IF CSub(Output(coinbase_output).commitment, Kernel(coinbase_kernel).excess)
           = commit_value(0, Emission(header.height) + total_fees)
    THEN NoError
    ELSE Err("CoinbaseValueMismatch")

check_script_offset(header, aggregate_offset_pubkey, aggregate_input_key) ==
    IF aggregate_offset_pubkey - aggregate_input_key = header.total_script_offset
    THEN NoError
    ELSE Err("ScriptOffsetMismatch")

check_kernel_sum(kernel_sum, output_commitment_sum, input_commitment_sum) ==
    IF CSub(output_commitment_sum, input_commitment_sum) = kernel_sum.sum
    THEN NoError
    ELSE Err("KernelSumMismatch")

\* The MMR roots the database computes for a body: each root commits to the
\* elements of its kind in body order (the output root to the output hashes,
\* the witness root to the outputs with their proofs).
calculate_mmr_roots(d, inputs, outputs, kernels) ==
    [kernel_mr |-> kernels,
     output_mr |-> [i \in 1..Len(outputs) |-> Output(outputs[i]).hash],
     witness_mr |-> outputs,
     input_mr |-> inputs]

check_mmr_roots(header, mmr_roots) ==
    IF header.mmr_roots = mmr_roots THEN NoError ELSE Err("MmrRootMismatch")

-----------------------------------------------------------------------------
(* start_kernel_validation: the body of the blocking task.                 *)

\* KernelStep keeping the lock height of the kernel it has just seen instead
\* of the maximum (line 172 without cmp::max).
KernelStepLastTimelock(kernels, i, st) ==
    LET kernel == Kernel(kernels[i]) IN
    IF ~kernel.sig_ok THEN [st EXCEPT !.err = Err("InvalidSignature")]
    ELSE IF kernel.coinbase /\ st.coinbase_index # 0
    THEN [st EXCEPT !.err = Err("MoreThanOneCoinbase")]
    ELSE [err |-> NoError,
          coinbase_index |-> IF kernel.coinbase THEN i ELSE st.coinbase_index,
          max_kernel_timelock |-> kernel.lock_height,
          kernel_sum |-> [fees |-> st.kernel_sum.fees + kernel.fee,
                          sum |-> CAdd(st.kernel_sum.sum, kernel.excess)]]

\* One pass of the loop body for kernel i; st is the loop state
\* [err, kernel_sum, coinbase_index, max_kernel_timelock].
KernelStep(kernels, i, st) ==
    LET kernel == Kernel(kernels[i]) IN
    IF ~kernel.sig_ok THEN [st EXCEPT !.err = Err("InvalidSignature")]
    ELSE IF kernel.coinbase /\ st.coinbase_index # 0
    THEN [st EXCEPT !.err = Err("MoreThanOneCoinbase")]
    ELSE [err |-> NoError,
          coinbase_index |-> IF kernel.coinbase THEN i ELSE st.coinbase_index,
          max_kernel_timelock |->
              IF kernel.lock_height > st.max_kernel_timelock
              THEN kernel.lock_height ELSE st.max_kernel_timelock,
          kernel_sum |-> [fees |-> st.kernel_sum.fees + kernel.fee,
                          sum |-> CAdd(st.kernel_sum.sum, kernel.excess)]]

RECURSIVE KernelLoop(_, _, _)
KernelLoop(kernels, i, st) ==
    IF i > Len(kernels) \/ st.err # NoError THEN st
    ELSE KernelLoop(kernels, i + 1, KernelStep(kernels, i, st))

\* KernelValidation with the two tests after the loop exchanged (lines
\* 181-187 before lines 177-179).
KernelValidationCoinbaseFirst(height, total_offset, kernels) ==
    LET st == KernelLoop(kernels, 1,
                  [err |-> NoError, coinbase_index |-> 0, max_kernel_timelock |-> 0,
                   kernel_sum |-> [sum |-> total_offset, fees |-> 0]])
        err == IF st.err # NoError THEN st.err
               ELSE IF st.coinbase_index = 0 THEN Err("NoCoinbase")
               ELSE IF st.max_kernel_timelock > height THEN Err("MaturityError")
               ELSE NoError
    IN [err |-> err, kernels |-> kernels, kernel_sum |-> st.kernel_sum,
        coinbase_index |-> st.coinbase_index]

\* The result of the task: Result<KernelValidationData, ValidationError>.
KernelValidation(height, total_offset, kernels) ==
    LET st == KernelLoop(kernels, 1,
                  [err |-> NoError, coinbase_index |-> 0, max_kernel_timelock |-> 0,
                   kernel_sum |-> [sum |-> total_offset, fees |-> 0]])
        err == IF st.err # NoError THEN st.err
               ELSE IF st.max_kernel_timelock > height THEN Err("MaturityError")
               ELSE IF st.coinbase_index = 0 THEN Err("NoCoinbase")
               ELSE NoError
    IN [err |-> err, kernels |-> kernels, kernel_sum |-> st.kernel_sum,
        coinbase_index |-> st.coinbase_index]

-----------------------------------------------------------------------------
(* start_input_validation: the body of the blocking task.                  *)

is_mature_at(input, block_height) == Input(input).maturity <= block_height

\* InputStep returning at the first input that is not found, instead of
\* collecting the hash and going on.
InputStepFirstFailure(d, block_height, output_hashes, inputs, i, st) ==
    LET input == inputs[i]
        utxo == check_input_is_utxo(d, input)
        output_hash == Input(input).output_hash
    IN
    IF i > 1 /\ Input(input).ord <= Input(inputs[i - 1]).ord
    THEN [st EXCEPT !.err = Err("UnsortedOrDuplicateInput")]
    ELSE IF ~is_mature_at(input, block_height)
    THEN [st EXCEPT !.err = Err("InputMaturity")]
    ELSE IF utxo # NoError /\ utxo # Err("UnknownInput")
    THEN [st EXCEPT !.err = utxo]
    ELSE IF utxo = Err("UnknownInput")
            /\ \A k \in 1..Len(output_hashes) : output_hashes[k] # output_hash
    THEN [st EXCEPT !.err = UnknownInputs(<<output_hash>>)]
    ELSE IF ~Input(input).script_ok
    THEN [st EXCEPT !.err = Err("InvalidScript")]
    ELSE [st EXCEPT !.aggregate_input_key = @ + Input(input).script_key,
                    !.commitment_sum = CAdd(@, Input(input).commitment)]

\* InputStep without the look-up among the outputs of the block (line 232):
\* every input the database does not know is recorded as not found.
InputStepNoSameBlock(d, block_height, output_hashes, inputs, i, st) ==
    LET input == inputs[i]
        utxo == check_input_is_utxo(d, input)
        not_found_inputs ==
            IF utxo = Err("UnknownInput")
            THEN Append(st.not_found_inputs, Input(input).output_hash)
            ELSE st.not_found_inputs
    IN
    IF i > 1 /\ Input(input).ord <= Input(inputs[i - 1]).ord
    THEN [st EXCEPT !.err = Err("UnsortedOrDuplicateInput")]
    ELSE IF ~is_mature_at(input, block_height)
    THEN [st EXCEPT !.err = Err("InputMaturity")]
    ELSE IF utxo # NoError /\ utxo # Err("UnknownInput")
    THEN [st EXCEPT !.err = utxo]
    ELSE IF not_found_inputs # <<>>
    THEN [st EXCEPT !.not_found_inputs = not_found_inputs]
    ELSE IF ~Input(input).script_ok
    THEN [st EXCEPT !.err = Err("InvalidScript")]
    ELSE [st EXCEPT !.aggregate_input_key = @ + Input(input).script_key,
                    !.commitment_sum = CAdd(@, Input(input).commitment)]

\* InputStep running the script of every input (line 246 without the test):
\* a script that fails after a missing input returns its error.
InputStepAlwaysRunsScript(d, block_height, output_hashes, inputs, i, st) ==
    LET input == inputs[i]
        utxo == check_input_is_utxo(d, input)
        output_hash == Input(input).output_hash
        not_found_inputs ==
            IF utxo = Err("UnknownInput")
               /\ \A k \in 1..Len(output_hashes) : output_hashes[k] # output_hash
            THEN Append(st.not_found_inputs, output_hash)
            ELSE st.not_found_inputs
    IN
    IF i > 1 /\ Input(input).ord <= Input(inputs[i - 1]).ord
    THEN [st EXCEPT !.err = Err("UnsortedOrDuplicateInput")]
    ELSE IF ~is_mature_at(input, block_height)
    THEN [st EXCEPT !.err = Err("InputMaturity")]
    ELSE IF utxo # NoError /\ utxo # Err("UnknownInput")
    THEN [st EXCEPT !.err = utxo]
    ELSE IF ~Input(input).script_ok
    THEN [st EXCEPT !.err = Err("InvalidScript")]
    ELSE IF not_found_inputs # <<>>
    THEN [st EXCEPT !.not_found_inputs = not_found_inputs]
    ELSE [err |-> NoError,
          not_found_inputs |-> not_found_inputs,
          aggregate_input_key |-> st.aggregate_input_key + Input(input).script_key,
          commitment_sum |-> CAdd(st.commitment_sum, Input(input).commitment)]

\* One pass of the loop body for input i; st is the loop state
\* [err, aggregate_input_key, commitment_sum, not_found_inputs].
InputStep(d, block_height, output_hashes, inputs, i, st) ==
    LET input == inputs[i]
        utxo == check_input_is_utxo(d, input)
        output_hash == Input(input).output_hash
        not_found_inputs ==
            IF utxo = Err("UnknownInput")
               /\ \A k \in 1..Len(output_hashes) : output_hashes[k] # output_hash
            THEN Append(st.not_found_inputs, output_hash)
            ELSE st.not_found_inputs
    IN
    IF i > 1 /\ Input(input).ord <= Input(inputs[i - 1]).ord
    THEN [st EXCEPT !.err = Err("UnsortedOrDuplicateInput")]
    ELSE IF ~is_mature_at(input, block_height)
    THEN [st EXCEPT !.err = Err("InputMaturity")]
    ELSE IF utxo # NoError /\ utxo # Err("UnknownInput")
    THEN [st EXCEPT !.err = utxo]
    ELSE IF not_found_inputs # <<>>
    THEN [st EXCEPT !.not_found_inputs = not_found_inputs]
    ELSE IF ~Input(input).script_ok
    THEN [st EXCEPT !.err = Err("InvalidScript")]
    ELSE [err |-> NoError,
          not_found_inputs |-> not_found_inputs,
          aggregate_input_key |-> st.aggregate_input_key + Input(input).script_key,
          commitment_sum |-> CAdd(st.commitment_sum, Input(input).commitment)]

RECURSIVE InputLoop(_, _, _, _, _, _)
InputLoop(d, block_height, output_hashes, inputs, i, st) ==
    IF i > Len(inputs) \/ st.err # NoError THEN st
    ELSE InputLoop(d, block_height, output_hashes, inputs, i + 1,
                   InputStep(d, block_height, output_hashes, inputs, i, st))

\* The result of the task: Result<InputValidationData, ValidationError>.
InputValidation(d, block_height, output_hashes, inputs) ==
    LET st == InputLoop(d, block_height, output_hashes, inputs, 1,
                  [err |-> NoError, not_found_inputs |-> <<>>,
                   aggregate_input_key |-> PublicKeyDefault,
                   commitment_sum |-> CommitmentDefault])
        err == IF st.err # NoError THEN st.err
               ELSE IF st.not_found_inputs # <<>> THEN UnknownInputs(st.not_found_inputs)
               ELSE NoError
    IN [err |-> err, inputs |-> inputs,
        aggregate_input_key |-> st.aggregate_input_key,
        commitment_sum |-> st.commitment_sum]

-----------------------------------------------------------------------------
(* start_output_validation: the workers' loop body and the merge task.     *)

Min(a, b) == IF a < b THEN a ELSE b

\* outputs.into_iter().enumerate().collect(): the queue of (index, output).
Enumerate(outputs) == [i \in 1..Len(outputs) |-> <<i, outputs[i]>>]

NewWorker ==
    [state |-> "spawned", item |-> <<>>, outputs |-> <<>>,
     aggregate_sender_offset |-> PublicKeyDefault,
     commitment_sum |-> CommitmentDefault, coinbase_index |-> 0, err |-> NoError]

\* OutputChecks with the range proof verified whatever the flag says.
OutputChecksAlwaysRangeProof(d, bypass, t) ==
    LET output == Output(t.item[2])
        none == [err |-> NoError, meta |-> FALSE, rp |-> FALSE, dup |-> FALSE]
    IN
    IF output.coinbase /\ t.coinbase_index # 0
    THEN [none EXCEPT !.err = Err("MoreThanOneCoinbase")]
    ELSE IF ~output.meta_sig_ok
    THEN [none EXCEPT !.err = Err("InvalidSignature"), !.meta = TRUE]
    ELSE IF ~output.range_proof_ok
    THEN [none EXCEPT !.err = Err("InvalidRangeProof"), !.meta = TRUE, !.rp = TRUE]
    ELSE [err |-> check_not_duplicate_txo(d, t.item[2]),
          meta |-> TRUE, rp |-> TRUE, dup |-> TRUE]

\* The checks of the loop body on a popped output, in source order: the
\* first error (or NoError) and which of the three verifications were run.
OutputChecks(d, bypass, t) ==
    LET output == Output(t.item[2])
        none == [err |-> NoError, meta |-> FALSE, rp |-> FALSE, dup |-> FALSE]
    IN
    IF output.coinbase /\ t.coinbase_index # 0
    THEN [none EXCEPT !.err = Err("MoreThanOneCoinbase")]
    ELSE IF ~output.meta_sig_ok
    THEN [none EXCEPT !.err = Err("InvalidSignature"), !.meta = TRUE]
    ELSE IF ~bypass /\ ~output.range_proof_ok
    THEN [none EXCEPT !.err = Err("InvalidRangeProof"), !.meta = TRUE, !.rp = TRUE]
    ELSE [err |-> check_not_duplicate_txo(d, t.item[2]),
          meta |-> TRUE, rp |-> ~bypass, dup |-> TRUE]

\* WorkerStep recording as coinbase index the place of the output in the
\* worker's own buffer instead of orig_idx (line 304).
WorkerStepLocalIndex(d, bypass, t) ==
    LET output == Output(t.item[2])
        err == OutputChecks(d, bypass, t).err
    IN
    IF err # NoError
    THEN [NewWorker EXCEPT !.state = "returned", !.err = err]
    ELSE [state |-> "loop", item |-> <<>>, err |-> NoError,
          coinbase_index |->
              IF output.coinbase THEN Len(t.outputs) + 1 ELSE t.coinbase_index,
          aggregate_sender_offset |->
              IF output.coinbase THEN t.aggregate_sender_offset
              ELSE t.aggregate_sender_offset + output.sender_offset_public_key,
          commitment_sum |-> CAdd(t.commitment_sum, output.commitment),
          outputs |-> Append(t.outputs, t.item)]

\* The loop body of a worker for the popped pair t.item (lines 296-318).
WorkerStep(d, bypass, t) ==
    LET orig_idx == t.item[1]
        output == Output(t.item[2])
        err == OutputChecks(d, bypass, t).err
    IN
    IF err # NoError
    THEN [NewWorker EXCEPT !.state = "returned", !.err = err]
    ELSE [state |-> "loop", item |-> <<>>, err |-> NoError,
          coinbase_index |-> IF output.coinbase THEN orig_idx ELSE t.coinbase_index,
          aggregate_sender_offset |->
              IF output.coinbase THEN t.aggregate_sender_offset
              ELSE t.aggregate_sender_offset + output.sender_offset_public_key,
          commitment_sum |-> CAdd(t.commitment_sum, output.commitment),
          outputs |-> Append(t.outputs, t.item)]

NewMerge ==
    [state |-> "none", pending |-> {}, valid_outputs |-> <<>>,
     aggregate_offset_pubkey |-> PublicKeyDefault,
     output_commitment_sum |-> CommitmentDefault,
     coinbase_index |-> 0, err |-> NoError, outputs |-> <<>>]

\* MergeStep without the test at line 336: the coinbase index of the worker
\* merged last replaces the one already seen.
MergeStepLastCoinbaseWins(m, w, t) ==
    IF t.err # NoError
    THEN [NewMerge EXCEPT !.state = "done", !.err = t.err]
    ELSE [m EXCEPT !.pending = @ \ {w},
                   !.aggregate_offset_pubkey = @ + t.aggregate_sender_offset,
                   !.output_commitment_sum = CAdd(@, t.commitment_sum),
                   !.coinbase_index =
                       IF t.coinbase_index # 0 THEN t.coinbase_index ELSE @,
                   !.valid_outputs = @ \o t.outputs]

\* MergeStep passing over the result of a worker that panicked (the first
\* `?` of line 332 replaced by a skip).
MergeStepSkipsPanic(m, w, t) ==
    IF t.err = WorkerPanic
    THEN [m EXCEPT !.pending = @ \ {w}]
    ELSE IF t.err # NoError
    THEN [NewMerge EXCEPT !.state = "done", !.err = t.err]
    ELSE IF t.coinbase_index # 0 /\ m.coinbase_index # 0
    THEN [NewMerge EXCEPT !.state = "done", !.err = Err("MoreThanOneCoinbase")]
    ELSE [m EXCEPT !.pending = @ \ {w},
                   !.aggregate_offset_pubkey = @ + t.aggregate_sender_offset,
                   !.output_commitment_sum = CAdd(@, t.commitment_sum),
                   !.coinbase_index =
                       IF t.coinbase_index # 0 THEN t.coinbase_index ELSE @,
                   !.valid_outputs = @ \o t.outputs]

\* MergeStep assigning the aggregates of the worker instead of adding them
\* (lines 333-334): the merged sums are those of the worker merged last.
MergeStepKeepsLastSums(m, w, t) ==
    IF t.err # NoError
    THEN [NewMerge EXCEPT !.state = "done", !.err = t.err]
    ELSE IF t.coinbase_index # 0 /\ m.coinbase_index # 0
    THEN [NewMerge EXCEPT !.state = "done", !.err = Err("MoreThanOneCoinbase")]
    ELSE [m EXCEPT !.pending = @ \ {w},
                   !.aggregate_offset_pubkey = t.aggregate_sender_offset,
                   !.output_commitment_sum = t.commitment_sum,
                   !.coinbase_index =
                       IF t.coinbase_index # 0 THEN t.coinbase_index ELSE @,
                   !.valid_outputs = @ \o t.outputs]

\* One pass of the merge loop for the result t of worker w (lines 331-342).
MergeStep(m, w, t) ==
    IF t.err # NoError
    THEN [NewMerge EXCEPT !.state = "done", !.err = t.err]
    ELSE IF t.coinbase_index # 0 /\ m.coinbase_index # 0
    THEN [NewMerge EXCEPT !.state = "done", !.err = Err("MoreThanOneCoinbase")]
    ELSE [m EXCEPT !.pending = @ \ {w},
                   !.aggregate_offset_pubkey = @ + t.aggregate_sender_offset,
                   !.output_commitment_sum = CAdd(@, t.commitment_sum),
                   !.coinbase_index =
                       IF t.coinbase_index # 0 THEN t.coinbase_index ELSE @,
                   !.valid_outputs = @ \o t.outputs]

\* valid_outputs.sort_by(|(a, _), (b, _)| a.cmp(b)): a stable insertion sort.
RECURSIVE InsertByIndex(_, _)
InsertByIndex(sorted, pair) ==
    IF sorted = <<>> THEN <<pair>>
    ELSE IF pair[1] < Head(sorted)[1] THEN <<pair>> \o sorted
    ELSE <<Head(sorted)>> \o InsertByIndex(Tail(sorted), pair)

RECURSIVE SortByIndex(_)
SortByIndex(pairs) ==
    IF pairs = <<>> THEN <<>>
    ELSE InsertByIndex(SortByIndex(SubSeq(pairs, 1, Len(pairs) - 1)), pairs[Len(pairs)])

\* MergeResult without the sort at line 354: the outputs come back in the
\* order in which the workers' buffers were merged.
MergeResultUnsorted(m) ==
    IF m.coinbase_index = 0
    THEN [NewMerge EXCEPT !.state = "done", !.err = Err("NoCoinbase")]
    ELSE [m EXCEPT !.state = "done", !.valid_outputs = <<>>,
                   !.outputs = [i \in 1..Len(m.valid_outputs) |-> m.valid_outputs[i][2]]]

\* MergeResult without the test at line 344: with no coinbase index the
\* data is returned all the same.
MergeResultNoCoinbaseTest(m) ==
    LET sorted == SortByIndex(m.valid_outputs) IN
    [m EXCEPT !.state = "done", !.valid_outputs = <<>>,
              !.outputs = [i \in 1..Len(sorted) |-> sorted[i][2]]]

\* The end of the merge task (lines 344-362).
MergeResult(m) ==
    IF m.coinbase_index = 0
    THEN [NewMerge EXCEPT !.state = "done", !.err = Err("NoCoinbase")]
    ELSE LET sorted == SortByIndex(m.valid_outputs) IN
         [m EXCEPT !.state = "done", !.valid_outputs = <<>>,
                   !.outputs = [i \in 1..Len(sorted) |-> sorted[i][2]]]

-----------------------------------------------------------------------------
(* The blocks and validators the model submits.                            *)

SeqsUpTo(S, n) == UNION {[1..k -> S] : k \in 0..n}

Body(ins, outs, kers) == [inputs |-> ins, outputs |-> outs, kernels |-> kers]

\* The header of a block: it commits to the MMR roots of the body m.
Header(ko, m) ==
    [height |-> 2, total_kernel_offset |-> ko, total_script_offset |-> 0,
     mmr_roots |-> calculate_mmr_roots(InitialDb, m.inputs, m.outputs, m.kernels)]

\* Reference blocks, each a kernel offset and a body: four that balance and
\* one in which every sub-validator fails.
RefBlocks ==
    {[ko |-> 0, body |-> Body(<<>>, <<"OC5">>, <<"KC">>)],
     [ko |-> 0, body |-> Body(<<"I2">>, <<"OC5", "O2">>, <<"KC">>)],
     [ko |-> 0, body |-> Body(<<"I1">>, <<"OC6", "O2">>, <<"KC", "K2">>)],
     [ko |-> 1, body |-> Body(<<"I1">>, <<"OC5", "O2">>, <<"KC">>)],
     [ko |-> 0, body |-> Body(<<"IU1">>, <<"O2r">>, <<"KL">>)]}

Block(h, b) ==
    [header |-> h, inputs |-> b.inputs, outputs |-> b.outputs, kernels |-> b.kernels]

Concurrencies == {0, 1, 2, 8, 32}

Call(b, c, bypass) == [block |-> b, concurrency |-> c, bypass |-> bypass]

\* The calls the model makes: a reference block with its outputs replaced by
\* any sequence over the catalogue, on any validator; with its inputs or its
\* kernels replaced, or under a header that commits to other MMR roots, on a
\* validator with one worker that verifies range proofs.
Calls ==
    {Call(Block(Header(r.ko, Body(r.body.inputs, o, r.body.kernels)),
                Body(r.body.inputs, o, r.body.kernels)), c, bypass) :
        o \in SeqsUpTo(OutputIds, MaxOutputs), r \in RefBlocks,
        c \in Concurrencies, bypass \in BOOLEAN}
    \cup {Call(Block(Header(r.ko, Body(i, r.body.outputs, r.body.kernels)),
                     Body(i, r.body.outputs, r.body.kernels)), 1, FALSE) :
        i \in SeqsUpTo(InputIds, MaxInputs), r \in RefBlocks}
    \cup {Call(Block(Header(r.ko, Body(r.body.inputs, r.body.outputs, k)),
                     Body(r.body.inputs, r.body.outputs, k)), 1, FALSE) :
        k \in SeqsUpTo(KernelIds, MaxKernels), r \in RefBlocks}
    \cup {Call(Block(Header(r.ko, Body(<<>>, <<>>, <<>>)), r.body), 1, FALSE) :
        r \in RefBlocks}

NoKernelTask ==
    [state |-> "none", total_offset |-> CommitmentDefault,
     res |-> [err |-> NoError, kernels |-> <<>>,
              kernel_sum |-> [sum |-> CommitmentDefault, fees |-> 0],
              coinbase_index |-> 0]]

NoInputTask ==
    [state |-> "none", output_hashes |-> <<>>,
     res |-> [err |-> NoError, inputs |-> <<>>,
              aggregate_input_key |-> PublicKeyDefault,
              commitment_sum |-> CommitmentDefault]]

NoResult == [tag |-> "none", err |-> NoError, inputs |-> <<>>, outputs |-> <<>>,
             kernels |-> <<>>]

NoChecks == [meta |-> {}, rp |-> {}, dup |-> {}]

NoCall ==
    [made |-> FALSE, how |-> "", concurrency |-> 0, bypass |-> FALSE, result |-> NoResult,
     block |-> Block(Header(0, Body(<<>>, <<>>, <<>>)), Body(<<>>, <<>>, <<>>))]

\* The state in which validate_body(b) is entered on a validator with the
\* given configuration.
Enter(b, c, bypass) ==
    /\ block = b
    /\ concurrency = c
    /\ bypass_range_proof_verification = bypass
    /\ pc = "check_block_weight"
    /\ result = NoResult
    /\ kernels_task = NoKernelTask
    /\ inputs_task = NoInputTask
    /\ queue = <<>>
    /\ queue_lock = 0
    /\ output_tasks = <<>>
    /\ outputs_task = NewMerge
    /\ checked = NoChecks


\* No call of chunk_command is under way.
NoChunkCall ==
    /\ account = 0
    /\ instruction = 0
    /\ data = <<>>
    /\ commands = <<>>
    /\ chunk_pc = "idle"

Init ==
    /\ NoChunkCall
    /\ \E call \in Calls : Enter(call.block, call.concurrency, call.bypass)
    /\ db = InitialDb
    /\ db_readers = 0
    /\ first = NoCall

-----------------------------------------------------------------------------
(* validate_body and validate_block_body, step by step.                    *)

config == <<block, concurrency, bypass_range_proof_verification, db, first, ledger>>

height == block.header.height

ErrResult(e) == [NoResult EXCEPT !.tag = "Err", !.err = e]

\* validate_body, lines 382-383.
CheckBlockWeight ==
    /\ pc = "check_block_weight"
    /\ LET e == check_block_weight(block) IN
       IF e # NoError
       THEN pc' = "done" /\ result' = ErrResult(e)
       ELSE pc' = "start_kernels" /\ UNCHANGED result
    /\ UNCHANGED <<config, db_readers, kernels_task, inputs_task, queue, queue_lock, output_tasks,
                   outputs_task, checked>>

\* total_offset without the header's kernel offset: the kernel sum starts
\* from the commitment to the reward alone.
total_offset_reward_only(header, kernels) ==
    commit_value(0, calculate_coinbase_and_fees(header.height, kernels))

\* The commitment the kernel sum starts from, lines 142-148.
total_offset(header, kernels) ==
    commit_value(header.total_kernel_offset,
                 calculate_coinbase_and_fees(header.height, kernels))

\* start_kernel_validation up to the spawn, lines 142-150.
StartKernelValidation ==
    /\ pc = "start_kernels"
    /\ kernels_task' =
           [NoKernelTask EXCEPT
               !.state = "spawned",
               !.total_offset = total_offset(block.header, block.kernels)]
    /\ pc' = "start_inputs"
    /\ UNCHANGED <<config, db_readers, result, inputs_task, queue, queue_lock, output_tasks,
                   outputs_task, checked>>

\* The blocking task of start_kernel_validation, lines 150-196.
KernelTask ==
    /\ kernels_task.state = "spawned"
    /\ kernels_task' =
           [kernels_task EXCEPT
               !.state = "done",
               !.res = KernelValidation(height, kernels_task.total_offset, block.kernels)]
    /\ UNCHANGED <<config, db_readers, pc, result, inputs_task, queue, queue_lock, output_tasks,
                   outputs_task, checked>>

\* start_input_validation up to the spawn, lines 92 and 206-209.
StartInputValidation ==
    /\ pc = "start_inputs"
    /\ inputs_task' =
           [NoInputTask EXCEPT
               !.state = "spawned",
               !.output_hashes =
                   [i \in 1..Len(block.outputs) |-> Output(block.outputs[i]).hash]]
    /\ pc' = "check_output_order"
    /\ UNCHANGED <<config, db_readers, result, kernels_task, queue, queue_lock, output_tasks,
                   outputs_task, checked>>

\* The blocking task of start_input_validation, lines 209-262: it takes a read
\* snapshot, runs the loop and drops the snapshot when it returns.
InputTask ==
    /\ inputs_task.state = "spawned"
    /\ inputs_task' =
           [inputs_task EXCEPT
               !.state = "done",
               !.res = InputValidation(db, height, inputs_task.output_hashes,
                                       block.inputs)]
    /\ UNCHANGED <<config, db_readers, pc, result, kernels_task, queue, queue_lock, output_tasks,
                   outputs_task, checked>>

\* validate_block_body, lines 95-97.
CheckOutputOrder ==
    /\ pc = "check_output_order"
    /\ IF ~is_all_unique_and_sorted(OutputRanks(block.outputs))
       THEN pc' = "done" /\ result' = ErrResult(Err("UnsortedOrDuplicateOutput"))
       ELSE pc' = "start_outputs" /\ UNCHANGED result
    /\ UNCHANGED <<config, db_readers, kernels_task, inputs_task, queue, queue_lock, output_tasks,
                   outputs_task, checked>>

\* start_output_validation: the queue, the workers and the merge task are
\* created, lines 272-326.
StartOutputValidation ==
    /\ pc = "start_outputs"
    /\ queue' = Enumerate(block.outputs)
    /\ queue_lock' = 0
    /\ output_tasks' = [w \in 1..Min(concurrency, Len(block.outputs)) |-> NewWorker]
    /\ outputs_task' =
           [NewMerge EXCEPT !.state = "running",
                            !.pending = 1..Min(concurrency, Len(block.outputs))]
    /\ pc' = "await_outputs"
    /\ UNCHANGED <<config, db_readers, result, kernels_task, inputs_task, checked>>

\* An output worker starts: db.db_read_access(), line 290.
WorkerBegin(w) ==
    /\ output_tasks[w].state = "spawned"
    /\ output_tasks' = [output_tasks EXCEPT ![w].state = "loop"]
    /\ db_readers' = db_readers + 1
    /\ UNCHANGED <<config, pc, result, kernels_task, inputs_task, queue, queue_lock, outputs_task,
                   checked>>

\* WorkerPop with the read snapshot of line 290 kept by a worker that finds
\* the queue empty.
WorkerPopKeepsSnapshot(w) ==
    /\ output_tasks[w].state = "loop"
    /\ queue_lock \in {0, LockPoisoned}
    /\ IF queue_lock = LockPoisoned
       THEN /\ output_tasks' =
                   [output_tasks EXCEPT
                       ![w] = [NewWorker EXCEPT !.state = "returned", !.err = WorkerPanic]]
            /\ db_readers' = db_readers - 1
            /\ UNCHANGED <<queue, queue_lock>>
       ELSE IF queue = <<>>
       THEN /\ output_tasks' = [output_tasks EXCEPT ![w].state = "returned"]
            /\ UNCHANGED <<queue, queue_lock, db_readers>>
       ELSE /\ output_tasks' = [output_tasks EXCEPT ![w].state = "verify",
                                                    ![w].item = queue[Len(queue)]]
            /\ queue' = SubSeq(queue, 1, Len(queue) - 1)
            /\ queue_lock' = w
            /\ UNCHANGED db_readers
    /\ UNCHANGED <<config, pc, result, kernels_task, inputs_task, outputs_task, checked>>

\* WorkerPop reading the last pair of the vector without removing it
\* (last().cloned() in place of pop()).
WorkerPopLeavesPair(w) ==
    /\ output_tasks[w].state = "loop"
    /\ queue_lock \in {0, LockPoisoned}
    /\ IF queue_lock = LockPoisoned
       THEN /\ output_tasks' =
                   [output_tasks EXCEPT
                       ![w] = [NewWorker EXCEPT !.state = "returned", !.err = WorkerPanic]]
            /\ db_readers' = db_readers - 1
            /\ UNCHANGED <<queue, queue_lock>>
       ELSE IF queue = <<>>
       THEN /\ output_tasks' = [output_tasks EXCEPT ![w].state = "returned"]
            /\ db_readers' = db_readers - 1
            /\ UNCHANGED <<queue, queue_lock>>
       ELSE /\ output_tasks' = [output_tasks EXCEPT ![w].state = "verify",
                                                    ![w].item = queue[Len(queue)]]
            /\ queue' = queue
            /\ queue_lock' = w
            /\ UNCHANGED db_readers
    /\ UNCHANGED <<config, pc, result, kernels_task, inputs_task, outputs_task, checked>>

\* queue.lock().expect("lock poisoned").pop(), line 295: the worker takes the
\* mutex and removes the last pair of the vector.  The guard is a temporary
\* of the scrutinee of `while let`, so it lives until the end of the loop
\* body: with a pair popped the worker goes on to verify it holding the
\* mutex; with None the loop ends, the guard is dropped and the worker
\* returns its Ok result (line 321).  On a poisoned mutex expect panics.
WorkerPop(w) ==
    /\ output_tasks[w].state = "loop"
    /\ queue_lock \in {0, LockPoisoned}
    /\ IF queue_lock = LockPoisoned
       THEN /\ output_tasks' =
                   [output_tasks EXCEPT
                       ![w] = [NewWorker EXCEPT !.state = "returned", !.err = WorkerPanic]]
            /\ db_readers' = db_readers - 1
            /\ UNCHANGED <<queue, queue_lock>>
       ELSE IF queue = <<>>
       THEN /\ output_tasks' = [output_tasks EXCEPT ![w].state = "returned"]
            /\ db_readers' = db_readers - 1
            /\ UNCHANGED <<queue, queue_lock>>
       ELSE /\ output_tasks' = [output_tasks EXCEPT ![w].state = "verify",
                                                    ![w].item = queue[Len(queue)]]
            /\ queue' = SubSeq(queue, 1, Len(queue) - 1)
            /\ queue_lock' = w
            /\ UNCHANGED db_readers
    /\ UNCHANGED <<config, pc, result, kernels_task, inputs_task, outputs_task, checked>>

\* WorkerVerify storing each output it has validated among the unspent
\* outputs of the database.
WorkerVerifyStoresOutput(w) ==
    /\ output_tasks[w].state = "verify"
    /\ LET t == output_tasks[w]
           ran == OutputChecks(db, bypass_range_proof_verification, t)
           next == WorkerStep(db, bypass_range_proof_verification, t)
       IN /\ output_tasks' = [output_tasks EXCEPT ![w] = next]
          /\ checked' =
                 [meta |-> IF ran.meta THEN checked.meta \cup {t.item[1]} ELSE checked.meta,
                  rp |-> IF ran.rp THEN checked.rp \cup {t.item[1]} ELSE checked.rp,
                  dup |-> IF ran.dup THEN checked.dup \cup {t.item[1]} ELSE checked.dup]
          /\ db_readers' = IF next.state = "returned" THEN db_readers - 1 ELSE db_readers
          /\ queue_lock' = 0
          /\ db' = IF ran.err = NoError
                   THEN [db EXCEPT !.utxos = @ \cup {Output(t.item[2]).hash}]
                   ELSE db
    /\ UNCHANGED <<block, concurrency, bypass_range_proof_verification, first, pc, result,
                   kernels_task, inputs_task, queue, outputs_task, ledger>>

\* The loop body on the popped output, lines 296-318; the guard taken at
\* line 295 is dropped when the iteration ends or the closure returns.
WorkerVerify(w) ==
    /\ output_tasks[w].state = "verify"
    /\ LET t == output_tasks[w]
           ran == OutputChecks(db, bypass_range_proof_verification, t)
           next == WorkerStep(db, bypass_range_proof_verification, t)
       IN /\ output_tasks' = [output_tasks EXCEPT ![w] = next]
          /\ checked' =
                 [meta |-> IF ran.meta THEN checked.meta \cup {t.item[1]} ELSE checked.meta,
                  rp |-> IF ran.rp THEN checked.rp \cup {t.item[1]} ELSE checked.rp,
                  dup |-> IF ran.dup THEN checked.dup \cup {t.item[1]} ELSE checked.dup]
          /\ db_readers' = IF next.state = "returned" THEN db_readers - 1 ELSE db_readers
          /\ queue_lock' = 0
    /\ UNCHANGED <<config, pc, result, kernels_task, inputs_task, queue, outputs_task>>

\* The merge task takes the result of a worker that has returned, line 331.
MergeNext(w) ==
    /\ outputs_task.state = "running"
    /\ w \in outputs_task.pending
    /\ output_tasks[w].state = "returned"
    /\ outputs_task' = MergeStep(outputs_task, w, output_tasks[w])
    /\ UNCHANGED <<config, db_readers, pc, result, kernels_task, inputs_task, queue, queue_lock,
                   output_tasks, checked>>

\* No worker is left: the end of the merge task, lines 344-362.
MergeFinish ==
    /\ outputs_task.state = "running"
    /\ outputs_task.pending = {}
    /\ outputs_task' = MergeResult(outputs_task)
    /\ UNCHANGED <<config, db_readers, pc, result, kernels_task, inputs_task, queue, queue_lock,
                   output_tasks, checked>>

\* AwaitOutputs as a select over the three tasks: the error of an input or
\* kernel task that has already failed is returned without waiting for the
\* outputs.
AwaitOutputsFailFast ==
    /\ pc = "await_outputs"
    /\ IF inputs_task.state = "done" /\ inputs_task.res.err # NoError
       THEN pc' = "done" /\ result' = ErrResult(inputs_task.res.err)
       ELSE IF kernels_task.state = "done" /\ kernels_task.res.err # NoError
       THEN pc' = "done" /\ result' = ErrResult(kernels_task.res.err)
       ELSE /\ outputs_task.state = "done"
            /\ IF outputs_task.err # NoError
               THEN pc' = "done" /\ result' = ErrResult(outputs_task.err)
               ELSE pc' = "await_inputs" /\ UNCHANGED result
    /\ UNCHANGED <<config, db_readers, kernels_task, inputs_task, queue, queue_lock, output_tasks,
                   outputs_task, checked>>

\* outputs_task.await??, line 101.
AwaitOutputs ==
    /\ pc = "await_outputs"
    /\ outputs_task.state = "done"
    /\ IF outputs_task.err # NoError
       THEN pc' = "done" /\ result' = ErrResult(outputs_task.err)
       ELSE pc' = "await_inputs" /\ UNCHANGED result
    /\ UNCHANGED <<config, db_readers, kernels_task, inputs_task, queue, queue_lock, output_tasks,
                   outputs_task, checked>>

\* inputs_task.await??, line 102.
AwaitInputs ==
    /\ pc = "await_inputs"
    /\ inputs_task.state = "done"
    /\ IF inputs_task.res.err # NoError
       THEN pc' = "done" /\ result' = ErrResult(inputs_task.res.err)
       ELSE pc' = "await_kernels" /\ UNCHANGED result
    /\ UNCHANGED <<config, db_readers, kernels_task, inputs_task, queue, queue_lock, output_tasks,
                   outputs_task, checked>>

\* kernels_task.await??, line 103.
AwaitKernels ==
    /\ pc = "await_kernels"
    /\ kernels_task.state = "done"
    /\ IF kernels_task.res.err # NoError
       THEN pc' = "done" /\ result' = ErrResult(kernels_task.res.err)
       ELSE pc' = "check_coinbase_reward" /\ UNCHANGED result
    /\ UNCHANGED <<config, db_readers, kernels_task, inputs_task, queue, queue_lock, output_tasks,
                   outputs_task, checked>>

\* FinalCheck without the `?`: the error of the check is dropped and the
\* call goes on to the next step.
FinalCheckGoesOn(at, e, then) ==
    /\ pc = at
    /\ pc' = then
    /\ UNCHANGED <<config, db_readers, result, kernels_task, inputs_task, queue,
                   queue_lock, output_tasks, outputs_task, checked>>

\* A final check of validate_block_body: on an error the call returns it,
\* otherwise it goes on to the next step.
FinalCheck(at, e, then) ==
    /\ pc = at
    /\ IF e # NoError
       THEN pc' = "done" /\ result' = ErrResult(e)
       ELSE pc' = then /\ UNCHANGED result
    /\ UNCHANGED <<config, db_readers, kernels_task, inputs_task, queue, queue_lock, output_tasks,
                   outputs_task, checked>>

\* Lines 106-113.
CheckCoinbaseReward ==
    FinalCheck("check_coinbase_reward",
               IF pc = "check_coinbase_reward"
               THEN check_coinbase_reward(
                        block.header, kernels_task.res.kernel_sum.fees,
                        kernels_task.res.kernels[kernels_task.res.coinbase_index],
                        outputs_task.outputs[outputs_task.coinbase_index])
               ELSE NoError,
               "check_script_offset")

\* Lines 115-119.
CheckScriptOffset ==
    FinalCheck("check_script_offset",
               check_script_offset(block.header, outputs_task.aggregate_offset_pubkey,
                                   inputs_task.res.aggregate_input_key),
               "check_kernel_sum")

\* Lines 121-126.
CheckKernelSum ==
    FinalCheck("check_kernel_sum",
               check_kernel_sum(kernels_task.res.kernel_sum,
                                outputs_task.output_commitment_sum,
                                inputs_task.res.commitment_sum),
               "check_mmr_roots")

\* The block rebuilt from the three results (lines 128-134) goes to
\* check_mmr_roots (lines 80-84, 391) and is returned.
CheckMmrRoots ==
    /\ pc = "check_mmr_roots"
    /\ LET ins == inputs_task.res.inputs
           outs == outputs_task.outputs
           kers == kernels_task.res.kernels
           e == check_mmr_roots(block.header, calculate_mmr_roots(db, ins, outs, kers))
       IN result' = IF e # NoError THEN ErrResult(e)
                    ELSE [tag |-> "Ok", err |-> NoError, inputs |-> ins,
                          outputs |-> outs, kernels |-> kers]
    /\ pc' = "done"
    /\ UNCHANGED <<config, db_readers, kernels_task, inputs_task, queue, queue_lock, output_tasks,
                   outputs_task, checked>>

-----------------------------------------------------------------------------
(* A second call of validate_body, once the first has returned and its     *)
(* tasks are at rest (a task that never started is aborted with its join   *)
(* handle).                                                                *)

Quiescent ==
    /\ pc = "done"
    /\ ~first.made
    /\ \A w \in DOMAIN output_tasks : output_tasks[w].state \in {"spawned", "returned"}

\* validate_body(b) is entered on a validator (c, bypass) over the same
\* database; the call that has returned is remembered in first.
NewCall(how, b, c, bypass) ==
    /\ first' = [made |-> TRUE, how |-> how, concurrency |-> concurrency,
                 bypass |-> bypass_range_proof_verification, result |-> result,
                 block |-> block]
    /\ block' = b
    /\ concurrency' = c
    /\ bypass_range_proof_verification' = bypass
    /\ pc' = "check_block_weight"
    /\ result' = NoResult
    /\ kernels_task' = NoKernelTask
    /\ inputs_task' = NoInputTask
    /\ queue' = <<>>
    /\ queue_lock' = 0
    /\ output_tasks' = <<>>
    /\ outputs_task' = NewMerge
    /\ checked' = NoChecks
    /\ UNCHANGED <<db, db_readers, ledger>>

\* The same block goes to a validator with another concurrency: the
\* single-worker validator's answer is the one the others are compared with.
ResubmitSame(c) ==
    /\ Quiescent
    /\ concurrency = 1
    /\ NewCall("same", block, c, bypass_range_proof_verification)

Permute(seq, p) == [i \in 1..Len(seq) |-> seq[p[i]]]

\* An accepted block comes back, under the same header, with one of its
\* three sequences in another order.
ResubmitReordered(which, p) ==
    /\ Quiescent
    /\ result.tag = "Ok"
    /\ LET b == CASE which = "inputs" -> [block EXCEPT !.inputs = Permute(@, p)]
                  [] which = "outputs" -> [block EXCEPT !.outputs = Permute(@, p)]
                  [] which = "kernels" -> [block EXCEPT !.kernels = Permute(@, p)]
       IN /\ b # block
          /\ NewCall(which, b, concurrency, bypass_range_proof_verification)

\* The output with the same fields and a range proof that does not verify.
HasTwin(id) == id \in {"OC5", "O2"}

Twin(id) == IF id = "OC5" THEN "OC5r" ELSE "O2r"

\* A block accepted by a validator that verifies range proofs comes back with
\* the range proof of one output replaced by an invalid one (the header
\* commits to the new body), to a validator with either setting of the flag.
ResubmitBadRangeProof(i, bypass) ==
    /\ Quiescent
    /\ result.tag = "Ok"
    /\ ~bypass_range_proof_verification
    /\ i \in 1..Len(block.outputs)
    /\ HasTwin(block.outputs[i])
    /\ LET outs == [block.outputs EXCEPT ![i] = Twin(@)]
           b == Body(block.inputs, outs, block.kernels)
       IN NewCall("range_proof",
                  Block(Header(block.header.total_kernel_offset, b), b),
                  concurrency, bypass)

Next ==
    \/ CheckBlockWeight
    \/ StartKernelValidation
    \/ KernelTask
    \/ StartInputValidation
    \/ InputTask
    \/ CheckOutputOrder
    \/ StartOutputValidation
    \/ \E w \in DOMAIN output_tasks : WorkerBegin(w)
    \/ \E w \in DOMAIN output_tasks : WorkerPop(w)
    \/ \E w \in DOMAIN output_tasks : WorkerVerify(w)
    \/ \E w \in DOMAIN output_tasks : MergeNext(w)
    \/ MergeFinish
    \/ AwaitOutputs
    \/ AwaitInputs
    \/ AwaitKernels
    \/ CheckCoinbaseReward
    \/ CheckScriptOffset
    \/ CheckKernelSum
    \/ CheckMmrRoots
    \/ \E c \in Concurrencies \ {0} : ResubmitSame(c)
    \/ \E which \in {"inputs", "outputs", "kernels"} :
           \E p \in Permutations(1..Len(block[which])) : ResubmitReordered(which, p)
    \/ \E i \in 1..MaxOutputs + 1, bypass \in BOOLEAN : ResubmitBadRangeProof(i, bypass)

Spec == Init /\ [][Next]_vars

Accepted == pc = "done" /\ result.tag = "Ok"

\* One call of validate_body on a reference block with its outputs replaced
\* by any sequence over the catalogue, on a validator with 0, 1 or 2 workers
\* that verifies range proofs or not.
FairCalls ==
    {Call(Block(Header(r.ko, Body(r.body.inputs, o, r.body.kernels)),
                Body(r.body.inputs, o, r.body.kernels)), c, bypass) :
        o \in SeqsUpTo(OutputIds, MaxOutputs), r \in RefBlocks,
        c \in {0, 1, 2}, bypass \in BOOLEAN}

FairInit ==
    /\ NoChunkCall
    /\ \E call \in FairCalls : Enter(call.block, call.concurrency, call.bypass)
    /\ db = InitialDb
    /\ db_readers = 0
    /\ first = NoCall

FairNext ==
    \/ CheckBlockWeight
    \/ StartKernelValidation
    \/ KernelTask
    \/ StartInputValidation
    \/ InputTask
    \/ CheckOutputOrder
    \/ StartOutputValidation
    \/ \E w \in DOMAIN output_tasks : WorkerBegin(w)
    \/ \E w \in DOMAIN output_tasks : WorkerPop(w)
    \/ \E w \in DOMAIN output_tasks : WorkerVerify(w)
    \/ \E w \in DOMAIN output_tasks : MergeNext(w)
    \/ MergeFinish
    \/ AwaitOutputs
    \/ AwaitInputs
    \/ AwaitKernels
    \/ CheckCoinbaseReward
    \/ CheckScriptOffset
    \/ CheckKernelSum
    \/ CheckMmrRoots

\* One call with every task and worker scheduled: spawn_blocking gives each
\* closure a thread of the blocking pool and the runtime polls every spawned
\* future, so a step that stays possible is taken.
FairSpec == FairInit /\ [][FairNext]_vars /\ WF_vars(FairNext)

-----------------------------------------------------------------------------
(* Panics of the tasks and cancellation of the call.                       *)

\* The blocking task of start_kernel_validation panics: its join handle
\* yields a JoinError.
KernelTaskPanic ==
    /\ kernels_task.state = "spawned"
    /\ kernels_task' = [NoKernelTask EXCEPT !.state = "done", !.res.err = WorkerPanic]
    /\ UNCHANGED <<config, db_readers, pc, result, inputs_task, queue, queue_lock,
                   output_tasks, outputs_task, checked>>

\* The blocking task of start_input_validation panics.
InputTaskPanic ==
    /\ inputs_task.state = "spawned"
    /\ inputs_task' = [NoInputTask EXCEPT !.state = "done", !.res.err = WorkerPanic]
    /\ UNCHANGED <<config, db_readers, pc, result, kernels_task, queue, queue_lock,
                   output_tasks, outputs_task, checked>>

\* An output worker panics in the loop body: the guard of line 295, still
\* alive, poisons the mutex as it is dropped, and the read snapshot goes.
WorkerPanics(w) ==
    /\ output_tasks[w].state = "verify"
    /\ output_tasks' =
           [output_tasks EXCEPT
               ![w] = [NewWorker EXCEPT !.state = "returned", !.err = WorkerPanic]]
    /\ queue_lock' = LockPoisoned
    /\ db_readers' = db_readers - 1
    /\ UNCHANGED <<config, pc, result, kernels_task, inputs_task, queue, outputs_task,
                   checked>>

\* The places at which the future of validate_body is suspended: before its
\* first poll, at the three joins and at the calculate_mmr_roots request.
SuspensionPoints ==
    {"check_block_weight", "await_outputs", "await_inputs", "await_kernels",
     "check_mmr_roots"}

\* The caller drops the future of validate_body: the three join handles it
\* holds are dropped.  The merge task, an async task, is aborted, which
\* drops the handles of the output workers and detaches them; the blocking
\* tasks go on (KernelTask, InputTask, the workers) unless they had not
\* started (KernelTaskAborted, InputTaskAborted).
Cancel ==
    /\ pc \in SuspensionPoints
    /\ pc' = "cancelled"
    /\ outputs_task' = IF outputs_task.state = "running"
                       THEN [NewMerge EXCEPT !.state = "aborted"]
                       ELSE outputs_task
    /\ UNCHANGED <<config, db_readers, result, kernels_task, inputs_task, queue,
                   queue_lock, output_tasks, checked>>

\* abort() reaches the kernel task before the blocking pool has started it.
KernelTaskAborted ==
    /\ pc = "cancelled"
    /\ kernels_task.state = "spawned"
    /\ kernels_task' = [kernels_task EXCEPT !.state = "aborted"]
    /\ UNCHANGED <<config, db_readers, pc, result, inputs_task, queue, queue_lock,
                   output_tasks, outputs_task, checked>>

\* abort() reaches the input task before the blocking pool has started it.
InputTaskAborted ==
    /\ pc = "cancelled"
    /\ inputs_task.state = "spawned"
    /\ inputs_task' = [inputs_task EXCEPT !.state = "aborted"]
    /\ UNCHANGED <<config, db_readers, pc, result, kernels_task, queue, queue_lock,
                   output_tasks, outputs_task, checked>>

\* The calls made where tasks may panic and the caller may cancel: the
\* reference blocks, and a valid block whose coinbase output comes last, on
\* validators with one and two workers.
FaultCalls ==
    {Call(Block(Header(r.ko, r.body), r.body), c, FALSE) :
        r \in RefBlocks \cup {[ko |-> 0, body |-> Body(<<>>, <<"O0", "OC5">>, <<"KC">>)]},
        c \in {1, 2}}

FaultInit ==
    /\ NoChunkCall
    /\ \E call \in FaultCalls : Enter(call.block, call.concurrency, call.bypass)
    /\ db = InitialDb
    /\ db_readers = 0
    /\ first = NoCall

FaultNext ==
    \/ CheckBlockWeight
    \/ StartKernelValidation
    \/ KernelTask
    \/ StartInputValidation
    \/ InputTask
    \/ CheckOutputOrder
    \/ StartOutputValidation
    \/ \E w \in DOMAIN output_tasks : WorkerBegin(w)
    \/ \E w \in DOMAIN output_tasks : WorkerPop(w)
    \/ \E w \in DOMAIN output_tasks : WorkerVerify(w)
    \/ \E w \in DOMAIN output_tasks : MergeNext(w)
    \/ MergeFinish
    \/ AwaitOutputs
    \/ AwaitInputs
    \/ AwaitKernels
    \/ CheckCoinbaseReward
    \/ CheckScriptOffset
    \/ CheckKernelSum
    \/ CheckMmrRoots
    \/ KernelTaskPanic
    \/ InputTaskPanic
    \/ \E w \in DOMAIN output_tasks : WorkerPanics(w)
    \/ Cancel
    \/ KernelTaskAborted
    \/ InputTaskAborted

\* The runtime keeps running what can run: a task that has been spawned is
\* run by the pool, a future that is ready is polled.
FaultSpec == FaultInit /\ [][FaultNext]_vars /\ WF_vars(FaultNext)

-----------------------------------------------------------------------------
(* Properties.                                                             *)

CoinbaseKernels(kernels) == {i \in 1..Len(kernels) : Kernel(kernels[i]).coinbase}

CoinbaseOutputs(outputs) == {i \in 1..Len(outputs) : Output(outputs[i]).coinbase}

\* The workers that hold a coinbase index.
CoinbaseWorkers == {w \in DOMAIN output_tasks : output_tasks[w].coinbase_index # 0}

\* C1: an accepted block has exactly one coinbase kernel and exactly one
\* coinbase output, in the block submitted and in the body returned; and
\* when two workers each hold a coinbase output the merge task does not
\* return Ok, however the outputs were distributed.
C1_ExactlyOneCoinbase ==
    /\ Accepted =>
          /\ Cardinality(CoinbaseKernels(block.kernels)) = 1
          /\ Cardinality(CoinbaseOutputs(block.outputs)) = 1
          /\ Cardinality(CoinbaseKernels(result.kernels)) = 1
          /\ Cardinality(CoinbaseOutputs(result.outputs)) = 1
    /\ (outputs_task.state = "done" /\ Cardinality(CoinbaseWorkers) > 1)
          => outputs_task.err # NoError

\* C1 witness: a block is accepted after two workers verified one output each.
C1_Witness ==
    /\ Accepted
    /\ Len(output_tasks) = 2
    /\ \A w \in DOMAIN output_tasks : Len(output_tasks[w].outputs) = 1

\* C2: the body returned for an accepted block has its three sequences
\* strictly ascending under the canonical order and equal to those of the
\* block submitted.
C2_SortedAndSame ==
    Accepted =>
        /\ is_all_unique_and_sorted(InputRanks(result.inputs))
        /\ is_all_unique_and_sorted(OutputRanks(result.outputs))
        /\ is_all_unique_and_sorted(KernelRanks(result.kernels))
        /\ result.inputs = block.inputs
        /\ result.outputs = block.outputs
        /\ result.kernels = block.kernels

RanksOf(which, b) ==
    CASE which = "inputs" -> InputRanks(b.inputs)
      [] which = "outputs" -> OutputRanks(b.outputs)
      [] which = "kernels" -> KernelRanks(b.kernels)

\* The call that has returned is the second one, for an accepted block that
\* came back with one sequence reordered and no longer strictly ascending.
ReorderedDone ==
    /\ first.made
    /\ first.how \in {"inputs", "outputs", "kernels"}
    /\ first.result.tag = "Ok"
    /\ ~is_all_unique_and_sorted(RanksOf(first.how, block))
    /\ pc = "done"

\* C3: an accepted block with its inputs, its outputs or its kernels
\* reordered is rejected with UnsortedOrDuplicateInput or
\* UnsortedOrDuplicateOutput.
C3_ReorderedIsUnsorted ==
    ReorderedDone =>
        /\ result.tag = "Err"
        /\ result.err.kind \in {"UnsortedOrDuplicateInput", "UnsortedOrDuplicateOutput"}

\* C4: the same block over the same database gets the same decision, and
\* when accepted the same body, from the validator with one worker and from a
\* validator with concurrency 1, 2, 8 or 32, whatever the interleaving of the
\* workers and the order in which they complete.
C4_SameDecision ==
    (first.made /\ first.how = "same" /\ pc = "done"
     /\ first.concurrency \in {1, 2, 8, 32} /\ concurrency \in {1, 2, 8, 32}) =>
        /\ (result.tag = "Ok") <=> (first.result.tag = "Ok")
        /\ result.tag = "Ok" =>
              /\ result.inputs = first.result.inputs
              /\ result.outputs = first.result.outputs
              /\ result.kernels = first.result.kernels

\* C4 witness: a block accepted by the single-worker validator is accepted
\* again with concurrency 32, two workers having verified one output each.
C4_Witness ==
    /\ first.made /\ first.how = "same" /\ first.result.tag = "Ok"
    /\ Accepted
    /\ concurrency = 32
    /\ Len(output_tasks) = 2
    /\ \A w \in DOMAIN output_tasks : Len(output_tasks[w].outputs) = 1

\* A block rejected by the single-worker validator is rejected again by a
\* validator with two workers.
C4_WitnessRejected ==
    /\ first.made /\ first.how = "same" /\ first.result.tag = "Err"
    /\ pc = "done" /\ result.tag = "Err"
    /\ Len(output_tasks) = 2

RECURSIVE SumOutputCommitments(_)
SumOutputCommitments(outputs) ==
    IF outputs = <<>> THEN CommitmentDefault
    ELSE CAdd(Output(Head(outputs)).commitment, SumOutputCommitments(Tail(outputs)))

RECURSIVE SumInputCommitments(_)
SumInputCommitments(inputs) ==
    IF inputs = <<>> THEN CommitmentDefault
    ELSE CAdd(Input(Head(inputs)).commitment, SumInputCommitments(Tail(inputs)))

RECURSIVE SumExcesses(_)
SumExcesses(kernels) ==
    IF kernels = <<>> THEN CommitmentDefault
    ELSE CAdd(Kernel(Head(kernels)).excess, SumExcesses(Tail(kernels)))

\* C5: for an accepted block, the sum of all output commitments minus the
\* sum of all input commitments equals the sum of all kernel excesses plus
\* commit(header.total_kernel_offset, emission + fees of all kernels).
C5_Balance ==
    LET rhs == CAdd(SumExcesses(block.kernels),
                    commit_value(block.header.total_kernel_offset,
                                 Emission(block.header.height) + SumFees(block.kernels)))
    IN /\ Accepted =>
             CSub(SumOutputCommitments(block.outputs),
                  SumInputCommitments(block.inputs)) = rhs
       /\ (kernels_task.state = "done" /\ kernels_task.res.err = NoError) =>
             /\ kernels_task.res.kernel_sum.sum = rhs
             /\ kernels_task.res.kernel_sum.fees = SumFees(block.kernels)

\* C5 witness: a block with an input, two outputs, a fee-paying kernel and a
\* non-zero kernel offset in one of its accepted forms.
C5_Witness ==
    /\ Accepted
    /\ block.inputs # <<>>
    /\ Len(block.outputs) = 2
    /\ block.header.total_kernel_offset = 1

\* An accepted block with a kernel that pays a fee.
C5_WitnessFee ==
    /\ Accepted
    /\ SumFees(block.kernels) > 0

OutputHashes(outputs) == {Output(outputs[i]).hash : i \in 1..Len(outputs)}

\* An input that is neither an unspent output of the database nor an output
\* of the block b.
Missing(b, input) ==
    /\ Input(input).output_hash \notin db.utxos
    /\ Input(input).output_hash \notin OutputHashes(b.outputs)

RECURSIVE MissingHashes(_, _)
MissingHashes(b, inputs) ==
    IF inputs = <<>> THEN <<>>
    ELSE (IF Missing(b, Head(inputs)) THEN <<Input(Head(inputs)).output_hash>> ELSE <<>>)
         \o MissingHashes(b, Tail(inputs))

\* C6: when input validation fails with UnknownInputs(list), the list holds,
\* in input order, the referenced hash of every input of the block that is
\* neither unspent in the database nor an output of the block, and nothing
\* else; validate_body returns that list unchanged.
C6_UnknownInputsComplete ==
    /\ (inputs_task.state = "done" /\ inputs_task.res.err.kind = "UnknownInputs") =>
          inputs_task.res.err.hashes = MissingHashes(block, block.inputs)
    /\ (pc = "done" /\ result.err.kind = "UnknownInputs") =>
          result.err.hashes = MissingHashes(block, block.inputs)

\* C6 witness: validate_body fails with a list of two hashes.
C6_Witness ==
    /\ pc = "done"
    /\ result.err.kind = "UnknownInputs"
    /\ Len(result.err.hashes) = 2

\* An UnknownInputs list that leaves out an input spent from the same block.
C6_WitnessMixed ==
    /\ pc = "done"
    /\ result.err.kind = "UnknownInputs"
    /\ Len(result.err.hashes) = 1
    /\ Len(block.inputs) = 2

RECURSIVE SumScriptKeys(_)
SumScriptKeys(inputs) ==
    IF inputs = <<>> THEN PublicKeyDefault
    ELSE Input(Head(inputs)).script_key + SumScriptKeys(Tail(inputs))

\* An input the database does not know (neither unspent nor spent) whose
\* referenced hash is the hash of an output of the block.
SameBlockSpend(b, input) ==
    /\ Input(input).output_hash \notin db.utxos
    /\ Input(input).output_hash \notin db.stxos
    /\ Input(input).output_hash \in OutputHashes(b.outputs)

BadRangeProofs(outputs) == {i \in 1..Len(outputs) : ~Output(outputs[i]).range_proof_ok}

\* C8: a block accepted with range proofs verified, resubmitted with one
\* range proof made invalid, is accepted exactly when the validator has
\* bypass_range_proof_verification set (and is otherwise rejected with
\* InvalidRangeProof); with the flag set no range proof is verified, and a
\* successful output validation has verified the metadata signature and the
\* absence from the database of every output.
C8_BypassRangeProof ==
    /\ (first.made /\ first.how = "range_proof" /\ pc = "done") =>
          /\ result.tag = "Ok" <=> bypass_range_proof_verification
          /\ result.tag # "Ok" => result.err = Err("InvalidRangeProof")
    /\ bypass_range_proof_verification => checked.rp = {}
    /\ (outputs_task.state = "done" /\ outputs_task.err = NoError) =>
          /\ checked.meta = 1..Len(block.outputs)
          /\ checked.dup = 1..Len(block.outputs)
          /\ checked.rp = IF bypass_range_proof_verification THEN {}
                          ELSE 1..Len(block.outputs)
          /\ \A i \in 1..Len(block.outputs) :
                /\ Output(block.outputs[i]).meta_sig_ok
                /\ check_not_duplicate_txo(db, block.outputs[i]) = NoError
                /\ ~bypass_range_proof_verification =>
                       Output(block.outputs[i]).range_proof_ok

\* C8 witness: the block with an invalid range proof is accepted by the
\* validator that bypasses range proof verification, every output having
\* gone through the two other checks.
C8_Witness ==
    /\ first.made /\ first.how = "range_proof"
    /\ Accepted
    /\ bypass_range_proof_verification
    /\ BadRangeProofs(block.outputs) # {}
    /\ Len(block.outputs) = 2
    /\ checked.meta = {1, 2} /\ checked.dup = {1, 2}

\* The same block is rejected by the validator that verifies range proofs.
C8_WitnessRejected ==
    /\ first.made /\ first.how = "range_proof"
    /\ pc = "done"
    /\ ~bypass_range_proof_verification
    /\ result.err = Err("InvalidRangeProof")

\* With the flag set, an output already in the database is still refused.
C8_WitnessDuplicate ==
    /\ pc = "done"
    /\ bypass_range_proof_verification
    /\ BadRangeProofs(block.outputs) # {}
    /\ result.err = Err("ContainsTxO")

InputVerdict ==
    InputValidation(db, block.header.height,
                    [i \in 1..Len(block.outputs) |-> Output(block.outputs[i]).hash],
                    block.inputs).err

KernelVerdict ==
    KernelValidation(block.header.height, total_offset(block.header, block.kernels),
                     block.kernels).err

\* C10: once the three sub-validators have been started and validate_body
\* has returned, the error returned is that of the output validator if it
\* failed, otherwise that of the input validator if it fails on the block,
\* otherwise that of the kernel validator if it fails on the block, whichever
\* of the tasks had finished when the call returned.
C10_ErrorOrder ==
    (pc = "done" /\ outputs_task.state = "done") =>
        IF outputs_task.err # NoError THEN result = ErrResult(outputs_task.err)
        ELSE IF InputVerdict # NoError THEN result = ErrResult(InputVerdict)
        ELSE IF KernelVerdict # NoError THEN result = ErrResult(KernelVerdict)
        ELSE TRUE

\* C10 witness: all three validators fail on the block, the kernel and input
\* tasks had both failed before the output validator did, and the error
\* returned is the output validator's.
C10_Witness ==
    /\ pc = "done"
    /\ outputs_task.state = "done" /\ outputs_task.err # NoError
    /\ inputs_task.state = "done" /\ inputs_task.res.err # NoError
    /\ kernels_task.state = "done" /\ kernels_task.res.err # NoError
    /\ outputs_task.err # inputs_task.res.err
    /\ outputs_task.err # kernels_task.res.err
    /\ inputs_task.res.err # kernels_task.res.err
    /\ result = ErrResult(outputs_task.err)

\* The outputs pass, inputs and kernels both fail, the kernel task having
\* finished: the input validator's error is returned.
C10_WitnessInputs ==
    /\ pc = "done"
    /\ outputs_task.state = "done" /\ outputs_task.err = NoError
    /\ kernels_task.state = "done" /\ kernels_task.res.err # NoError
    /\ InputVerdict # NoError
    /\ InputVerdict # kernels_task.res.err
    /\ result = ErrResult(InputVerdict)

\* The kernels of a sequence whose lock height is above h.
LockedAbove(kernels, h) == {i \in 1..Len(kernels) : Kernel(kernels[i]).lock_height > h}

\* C11: no kernel of an accepted block has a lock height above the header's
\* height; and the kernel validator returns MaturityError for kernels that
\* all verify, hold exactly one coinbase and include a lock height above the
\* header's height.
C11_KernelTimelock ==
    /\ Accepted => LockedAbove(block.kernels, block.header.height) = {}
    /\ ( /\ kernels_task.state = "done"
         /\ \A i \in 1..Len(block.kernels) : Kernel(block.kernels[i]).sig_ok
         /\ Cardinality(CoinbaseKernels(block.kernels)) = 1
         /\ LockedAbove(block.kernels, block.header.height) # {} )
       => kernels_task.res.err = Err("MaturityError")

\* C11 witness: the locked kernel comes before the coinbase kernel, the other
\* validators pass, and validate_body returns MaturityError.
C11_Witness ==
    /\ pc = "done"
    /\ result = ErrResult(Err("MaturityError"))
    /\ Len(block.kernels) = 2
    /\ LockedAbove(block.kernels, block.header.height) = {1}
    /\ CoinbaseKernels(block.kernels) = {2}

\* A kernel locked exactly at the header's height is accepted.
C11_WitnessAtHeight ==
    /\ Accepted
    /\ \E i \in 1..Len(block.kernels) :
          Kernel(block.kernels[i]).lock_height = block.header.height

\* Every output passes the checks a worker makes on a single output.
OutputsPassChecks(outputs) ==
    \A i \in 1..Len(outputs) :
        /\ Output(outputs[i]).meta_sig_ok
        /\ bypass_range_proof_verification \/ Output(outputs[i]).range_proof_ok
        /\ check_not_duplicate_txo(db, outputs[i]) = NoError

\* C12: when no output of the block has the coinbase flag and every output
\* passes the workers' checks, output validation fails with NoCoinbase and
\* validate_body returns that error, whatever the inputs and kernels are;
\* for a block without outputs no worker is spawned and the merge loop takes
\* no result.
C12_NoCoinbaseOutput ==
    /\ ( /\ outputs_task.state = "done"
         /\ CoinbaseOutputs(block.outputs) = {}
         /\ OutputsPassChecks(block.outputs) )
       => /\ outputs_task.err = Err("NoCoinbase")
          /\ pc = "done" => result = ErrResult(Err("NoCoinbase"))
    /\ (outputs_task.state # "none" /\ block.outputs = <<>>)
       => /\ output_tasks = <<>>
          /\ outputs_task.pending = {}
          /\ checked = NoChecks

\* C12 witness: a block without outputs, a valid kernel set, a validator with
\* concurrency above zero: no worker, and NoCoinbase is returned.
C12_Witness ==
    /\ pc = "done"
    /\ block.outputs = <<>>
    /\ concurrency > 0
    /\ output_tasks = <<>>
    /\ kernels_task.state = "done" /\ kernels_task.res.err = NoError
    /\ result = ErrResult(Err("NoCoinbase"))

\* An output that passes every check and is not a coinbase, validated by a
\* worker: NoCoinbase.
C12_WitnessWorkers ==
    /\ pc = "done"
    /\ Len(block.outputs) = 1
    /\ concurrency > 1
    /\ checked.dup = {1}
    /\ kernels_task.state = "done" /\ kernels_task.res.err = NoError
    /\ result = ErrResult(Err("NoCoinbase"))

\* C13: when output validation succeeds, the outputs it returns are the
\* outputs of the block in the block's order, and coinbase_index points at
\* the coinbase output among them, whichever worker popped which output and
\* in whatever order the workers' results were merged.
C13_OutputOrderKept ==
    (outputs_task.state = "done" /\ outputs_task.err = NoError) =>
        /\ outputs_task.outputs = block.outputs
        /\ outputs_task.coinbase_index \in 1..Len(outputs_task.outputs)
        /\ Output(outputs_task.outputs[outputs_task.coinbase_index]).coinbase
        /\ CoinbaseOutputs(block.outputs) = {outputs_task.coinbase_index}

\* C13 witness: two workers have each validated one output, the first
\* worker the last output of the block, the coinbase is not the first
\* output, and the merged result is in the block's order.
C13_Witness ==
    /\ outputs_task.state = "done" /\ outputs_task.err = NoError
    /\ Len(block.outputs) = 2
    /\ Len(output_tasks) = 2
    /\ Len(output_tasks[1].outputs) = 1 /\ output_tasks[1].outputs[1][1] = 2
    /\ Len(output_tasks[2].outputs) = 1 /\ output_tasks[2].outputs[1][1] = 1
    /\ outputs_task.coinbase_index = 2
    /\ outputs_task.outputs = block.outputs

\* One worker has validated both outputs, popping the last one first.
C13_WitnessOneWorker ==
    /\ outputs_task.state = "done" /\ outputs_task.err = NoError
    /\ Len(output_tasks) = 1
    /\ Len(output_tasks[1].outputs) = 2
    /\ output_tasks[1].outputs[1][1] = 2
    /\ outputs_task.outputs = block.outputs

\* No validation worker exists: neither the kernel task nor the input task
\* has been spawned and there is no output worker.
NoWorkerSpawned ==
    /\ kernels_task.state = "none"
    /\ inputs_task.state = "none"
    /\ output_tasks = <<>>

\* C14: when the order of the outputs is checked no validation worker has
\* been spawned, and a call that returned UnsortedOrDuplicateOutput has
\* started none.
C14_OrderCheckBeforeWorkers ==
    /\ pc = "check_output_order" => NoWorkerSpawned
    /\ (pc = "done" /\ result = ErrResult(Err("UnsortedOrDuplicateOutput")))
           => NoWorkerSpawned

\* The part of C14 the code keeps: no output worker exists when the order of
\* the outputs is checked or after it has failed.
OrderCheckBeforeOutputWorkers ==
    (\/ pc = "check_output_order"
     \/ pc = "done" /\ result = ErrResult(Err("UnsortedOrDuplicateOutput")))
        => output_tasks = <<>> /\ outputs_task.state = "none"

\* The workers that are verifying an output they have popped.
Verifying == {w \in DOMAIN output_tasks : output_tasks[w].state = "verify"}

\* C15: a worker that is verifying an output does not hold the lock of the
\* queue, so that another worker may pop and verify at the same time.
C15_LockOnlyForPop ==
    \A w \in Verifying : queue_lock # w

\* What the code does instead: the worker that verifies holds the lock, and
\* no two workers verify at the same time.
VerificationSerialised ==
    /\ Cardinality(Verifying) <= 1
    /\ \A w \in Verifying : queue_lock = w

\* The merge task has returned the error of a worker.
OutputValidationFailed == outputs_task.state = "done" /\ outputs_task.err # NoError

\* C17: once the merge task has seen a worker fail, no worker of the same
\* call pops a further output from the queue or runs a check on one.
C17_SiblingsStop ==
    [][(OutputValidationFailed /\ first' = first)
           => (queue' = queue /\ checked' = checked)]_vars

\* What the code does: output validation has failed, validate_body has
\* returned the error, and a sibling worker has gone on to pop and verify
\* what was left in the queue.
SiblingDrainsQueue ==
    /\ pc = "done"
    /\ OutputValidationFailed
    /\ Len(output_tasks) = 2
    /\ output_tasks[1].state = "returned" /\ output_tasks[1].err # NoError
    /\ output_tasks[2].state = "returned" /\ output_tasks[2].err = NoError
    /\ Len(output_tasks[2].outputs) = 1
    /\ queue = <<>>

\* The output workers that panicked.
PanickedWorkers == {w \in DOMAIN output_tasks : output_tasks[w].err = WorkerPanic}

\* C16: when the kernel task, the input task or an output worker has
\* panicked (a worker also by finding the queue lock poisoned),
\* validate_body does not return Ok; a panic of an output worker makes
\* output validation fail, with the panic as its error when no worker
\* returned a validation error; and no final check is reached with the
\* panic of the kernel or input task unreported.
C16_PanicIsFailure ==
    /\ (pc = "done" /\ ( \/ kernels_task.res.err = WorkerPanic
                         \/ inputs_task.res.err = WorkerPanic
                         \/ PanickedWorkers # {} ))
           => result.tag = "Err"
    /\ (outputs_task.state = "done" /\ PanickedWorkers # {})
           => /\ outputs_task.err # NoError
              /\ (\A w \in DOMAIN output_tasks :
                     output_tasks[w].err \in {NoError, WorkerPanic})
                 => outputs_task.err = WorkerPanic
    /\ (pc \in {"await_kernels", "check_coinbase_reward"}
           => inputs_task.res.err # WorkerPanic)
    /\ (pc \in {"check_coinbase_reward", "check_script_offset", "check_kernel_sum",
                "check_mmr_roots"}
           => kernels_task.res.err # WorkerPanic)

\* C16 witness: a worker panicked while verifying, the other found the lock
\* poisoned and panicked too, and validate_body returned the panic.
C16_Witness ==
    /\ pc = "done"
    /\ result = ErrResult(WorkerPanic)
    /\ queue_lock = LockPoisoned
    /\ PanickedWorkers = {1, 2}
    /\ queue # <<>>

\* The kernel task panicked, outputs and inputs are valid, and validate_body
\* returned the panic.
C16_WitnessKernels ==
    /\ pc = "done"
    /\ kernels_task.res.err = WorkerPanic
    /\ inputs_task.state = "done" /\ inputs_task.res.err = NoError
    /\ outputs_task.err = NoError
    /\ result = ErrResult(WorkerPanic)

\* Every task and worker of the call has stopped and no read snapshot is
\* held.
Stopped ==
    /\ kernels_task.state \in {"none", "done", "aborted"}
    /\ inputs_task.state \in {"none", "done", "aborted"}
    /\ outputs_task.state \in {"none", "done", "aborted"}
    /\ \A w \in DOMAIN output_tasks : output_tasks[w].state = "returned"
    /\ queue_lock \in {0, LockPoisoned}
    /\ db_readers = 0

\* C18: once the future of validate_body has been dropped the call stays
\* cancelled, no result is delivered, the database is what it was, and
\* every task and worker eventually stops with all read snapshots released,
\* for good.
C18_CancelStops ==
    /\ [](pc = "cancelled" => (result = NoResult /\ db = InitialDb))
    /\ [][pc = "cancelled" => (pc' = "cancelled" /\ result' = result /\ db' = db)]_vars
    /\ (pc = "cancelled") ~> [](Stopped /\ pc = "cancelled")

\* C18 witness: the call was cancelled while the output workers were at
\* work; the merge task was aborted, both workers have run to the end of the
\* queue, every snapshot is released, and nothing was returned.
C18_Witness ==
    /\ pc = "cancelled"
    /\ Stopped
    /\ outputs_task.state = "aborted"
    /\ Len(output_tasks) = 2
    /\ \A w \in DOMAIN output_tasks : Len(output_tasks[w].outputs) = 1
    /\ result = NoResult
    /\ db = InitialDb

\* The call was cancelled before the kernel and input tasks had started, and
\* they never ran.
C18_WitnessAborted ==
    /\ pc = "cancelled"
    /\ Stopped
    /\ kernels_task.state = "aborted"
    /\ inputs_task.state = "aborted"

\* The steps of validate_body in the order of the source, and the steps at
\* which it may return early.
StepOrder ==
    <<"check_block_weight", "start_kernels", "start_inputs", "check_output_order",
      "start_outputs", "await_outputs", "await_inputs", "await_kernels",
      "check_coinbase_reward", "check_script_offset", "check_kernel_sum",
      "check_mmr_roots", "done">>

MayFail ==
    {"check_block_weight", "check_output_order", "await_outputs", "await_inputs",
     "await_kernels", "check_coinbase_reward", "check_script_offset",
     "check_kernel_sum"}

StepOf(p) == CHOOSE i \in 1..Len(StepOrder) : StepOrder[i] = p

FinalChecks ==
    {"check_coinbase_reward", "check_script_offset", "check_kernel_sum", "check_mmr_roots"}

CoinbaseRewardOk ==
    check_coinbase_reward(block.header, kernels_task.res.kernel_sum.fees,
                          kernels_task.res.kernels[kernels_task.res.coinbase_index],
                          outputs_task.outputs[outputs_task.coinbase_index]) = NoError

ScriptOffsetOk ==
    check_script_offset(block.header, outputs_task.aggregate_offset_pubkey,
                        inputs_task.res.aggregate_input_key) = NoError

KernelSumOk ==
    check_kernel_sum(kernels_task.res.kernel_sum, outputs_task.output_commitment_sum,
                     inputs_task.res.commitment_sum) = NoError

\* C19: within a call, validate_body either goes from a step to the next
\* one in the order of the source or, from a step that can fail, returns the
\* error; no sub-validator exists while the block weight is checked or after
\* that check has failed; the final checks are reached only with the three
\* sub-validators finished without error, each final check only with the
\* ones before it passed; and calculate_mmr_roots is reached only from a
\* check_kernel_sum that passed.
C19_StepOrder ==
    /\ [][(pc' # pc /\ first' = first) =>
             \/ StepOf(pc') = StepOf(pc) + 1
             \/ pc \in MayFail /\ pc' = "done" /\ result'.tag = "Err"]_vars
    /\ [][pc' = "check_mmr_roots" => (pc = "check_kernel_sum" /\ KernelSumOk)]_vars
    /\ []( (\/ pc = "check_block_weight"
            \/ pc = "done" /\ result = ErrResult(Err("BlockTooLarge")))
           => NoWorkerSpawned )
    /\ []( pc \in FinalChecks =>
             /\ outputs_task.state = "done" /\ outputs_task.err = NoError
             /\ inputs_task.state = "done" /\ inputs_task.res.err = NoError
             /\ kernels_task.state = "done" /\ kernels_task.res.err = NoError )
    /\ []( pc \in {"check_script_offset", "check_kernel_sum", "check_mmr_roots"}
             => CoinbaseRewardOk )
    /\ []( pc \in {"check_kernel_sum", "check_mmr_roots"} => ScriptOffsetOk )
    /\ []( pc = "check_mmr_roots" => KernelSumOk )
    /\ []( (pc = "done" /\ result.tag = "Err" /\ result.err # Err("MmrRootMismatch"))
             => ~( /\ outputs_task.state = "done" /\ outputs_task.err = NoError
                   /\ inputs_task.state = "done" /\ inputs_task.res.err = NoError
                   /\ kernels_task.state = "done" /\ kernels_task.res.err = NoError
                   /\ CoinbaseRewardOk /\ ScriptOffsetOk /\ KernelSumOk ) )

\* C19 witness: the three sub-validators and check_coinbase_reward passed,
\* check_script_offset failed, and validate_body returned its error.
C19_Witness ==
    /\ pc = "done"
    /\ result = ErrResult(Err("ScriptOffsetMismatch"))
    /\ outputs_task.state = "done" /\ outputs_task.err = NoError
    /\ inputs_task.state = "done" /\ inputs_task.res.err = NoError
    /\ kernels_task.state = "done" /\ kernels_task.res.err = NoError
    /\ CoinbaseRewardOk

\* The block is too heavy and validate_body returned before any spawn.
C19_WitnessWeight ==
    /\ pc = "done"
    /\ result = ErrResult(Err("BlockTooLarge"))
    /\ NoWorkerSpawned

\* The balance checks passed and the roots did not match.
C19_WitnessMmr ==
    /\ pc = "done"
    /\ result = ErrResult(Err("MmrRootMismatch"))
    /\ KernelSumOk

\* The kernels at which the loop of the kernel validator stops: a signature
\* that does not verify, or a coinbase kernel after another one.
StoppingKernels(kernels) ==
    {i \in 1..Len(kernels) :
        \/ ~Kernel(kernels[i]).sig_ok
        \/ /\ Kernel(kernels[i]).coinbase
           /\ \E j \in 1..(i - 1) : Kernel(kernels[j]).coinbase}

\* C20: the kernel validator fails at the first kernel whose signature does
\* not verify or that is a second coinbase, with InvalidSignature if the
\* signature of that kernel does not verify and MoreThanOneCoinbase
\* otherwise; with no such kernel it fails with MaturityError if a lock
\* height is above the header's height, else with NoCoinbase if there is no
\* coinbase kernel, else it succeeds.
C20_KernelErrorPrecedence ==
    kernels_task.state = "done" =>
        LET ks == block.kernels
            stop == StoppingKernels(ks)
            i == CHOOSE n \in stop : \A m \in stop : n <= m
        IN kernels_task.res.err =
               IF stop # {}
               THEN (IF ~Kernel(ks[i]).sig_ok THEN Err("InvalidSignature")
                     ELSE Err("MoreThanOneCoinbase"))
               ELSE IF LockedAbove(ks, block.header.height) # {} THEN Err("MaturityError")
               ELSE IF CoinbaseKernels(ks) = {} THEN Err("NoCoinbase")
               ELSE NoError

\* C20 witness: two coinbase kernels, one of them locked above the height:
\* MoreThanOneCoinbase.
C20_Witness ==
    /\ kernels_task.state = "done"
    /\ Cardinality(CoinbaseKernels(block.kernels)) = 2
    /\ LockedAbove(block.kernels, block.header.height) # {}
    /\ \A i \in 1..Len(block.kernels) : Kernel(block.kernels[i]).sig_ok
    /\ kernels_task.res.err = Err("MoreThanOneCoinbase")

\* A kernel locked above the height and no coinbase kernel: MaturityError.
C20_WitnessMaturity ==
    /\ kernels_task.state = "done"
    /\ CoinbaseKernels(block.kernels) = {}
    /\ LockedAbove(block.kernels, block.header.height) # {}
    /\ kernels_task.res.err = Err("MaturityError")

\* A second coinbase kernel whose signature does not verify:
\* InvalidSignature.
C20_WitnessSignature ==
    /\ kernels_task.state = "done"
    /\ Len(block.kernels) = 2
    /\ CoinbaseKernels(block.kernels) = {1, 2}
    /\ ~Kernel(block.kernels[2]).sig_ok
    /\ kernels_task.res.err = Err("InvalidSignature")

\* The positions of the inputs that are neither in the database nor outputs
\* of the block.
MissingAt(b) == {i \in 1..Len(b.inputs) : Missing(b, b.inputs[i])}

\* The error of the checks made on input i whatever came before it: order,
\* maturity, spent output.
HardError(b, i) ==
    IF i > 1 /\ Input(b.inputs[i]).ord <= Input(b.inputs[i - 1]).ord
    THEN Err("UnsortedOrDuplicateInput")
    ELSE IF ~is_mature_at(b.inputs[i], b.header.height) THEN Err("InputMaturity")
    ELSE IF Input(b.inputs[i]).output_hash \in db.stxos THEN Err("ContainsSTXO")
    ELSE NoError

\* Input i has a script that fails and no input up to i is missing.
ScriptErrorSeen(b, i) ==
    /\ ~Input(b.inputs[i]).script_ok
    /\ \A k \in MissingAt(b) : k > i

\* C21: the input validator fails at the first input that is out of order,
\* immature or spent, or whose script fails with no missing input at or
\* before it; a script that fails after a missing input is not reported.
\* With no such input it fails with UnknownInputs if an input is missing.
\* The aggregates stop at the first missing input: they are the sums over
\* the inputs before it.
C21_ScriptAfterMissing ==
    inputs_task.state = "done" =>
        LET b == block
            res == inputs_task.res
            stop == {i \in 1..Len(b.inputs) :
                        HardError(b, i) # NoError \/ ScriptErrorSeen(b, i)}
            i == CHOOSE n \in stop : \A m \in stop : n <= m
            m1 == CHOOSE n \in MissingAt(b) : \A m \in MissingAt(b) : n <= m
        IN /\ res.err =
                  IF stop # {}
                  THEN (IF HardError(b, i) # NoError THEN HardError(b, i)
                        ELSE Err("InvalidScript"))
                  ELSE IF MissingAt(b) # {}
                  THEN UnknownInputs(MissingHashes(b, b.inputs))
                  ELSE NoError
           /\ res.err.kind = "UnknownInputs" =>
                  /\ res.aggregate_input_key = SumScriptKeys(SubSeq(b.inputs, 1, m1 - 1))
                  /\ res.commitment_sum = SumInputCommitments(SubSeq(b.inputs, 1, m1 - 1))

\* C21 witness: a missing input followed by an input whose script fails:
\* validate_body returns UnknownInputs with the one hash.
C21_Witness ==
    /\ pc = "done"
    /\ Len(block.inputs) = 2
    /\ MissingAt(block) = {1}
    /\ ~Input(block.inputs[2]).script_ok
    /\ HardError(block, 2) = NoError
    /\ result = ErrResult(UnknownInputs(<<Input(block.inputs[1]).output_hash>>))

\* The script that fails comes before the missing input: InvalidScript.
C21_WitnessScriptFirst ==
    /\ pc = "done"
    /\ Len(block.inputs) = 2
    /\ MissingAt(block) = {2}
    /\ ~Input(block.inputs[1]).script_ok
    /\ result = ErrResult(Err("InvalidScript"))

\* An immature input after a missing one: the maturity check still runs.
C21_WitnessMaturity ==
    /\ inputs_task.state = "done"
    /\ Len(block.inputs) = 2
    /\ MissingAt(block) = {1}
    /\ inputs_task.res.err = Err("InputMaturity")

\* A valid input before the missing one is in the aggregates, the valid
\* input after it is not.
C21_WitnessAggregates ==
    /\ inputs_task.state = "done"
    /\ inputs_task.res.err.kind = "UnknownInputs"
    /\ inputs_task.res.commitment_sum # CommitmentDefault
    /\ inputs_task.res.commitment_sum # SumInputCommitments(block.inputs)

\* The sum of sender_offset_public_key over the outputs that are not
\* coinbase outputs.
RECURSIVE SumSenderOffsets(_)
SumSenderOffsets(outputs) ==
    IF outputs = <<>> THEN PublicKeyDefault
    ELSE (IF Output(Head(outputs)).coinbase THEN 0
          ELSE Output(Head(outputs)).sender_offset_public_key)
         + SumSenderOffsets(Tail(outputs))

\* C22: when output validation succeeds, whatever the workers each popped
\* and in whatever order their results were merged, output_commitment_sum
\* is the sum of the commitments of all outputs of the block and
\* aggregate_offset_pubkey is the sum of the sender offset keys of its
\* non-coinbase outputs.
C22_AggregatesIndependentOfSplit ==
    (outputs_task.state = "done" /\ outputs_task.err = NoError) =>
        /\ outputs_task.output_commitment_sum = SumOutputCommitments(block.outputs)
        /\ outputs_task.aggregate_offset_pubkey = SumSenderOffsets(block.outputs)

\* C22 witness: two workers validated one output each, a coinbase and a
\* non-coinbase output with a non-zero sender offset, and the merge succeeded.
C22_Witness ==
    /\ outputs_task.state = "done"
    /\ outputs_task.err = NoError
    /\ Len(block.outputs) = 2
    /\ SumSenderOffsets(block.outputs) # PublicKeyDefault
    /\ \E w1, w2 \in DOMAIN output_tasks :
           /\ w1 # w2
           /\ Len(output_tasks[w1].outputs) = 1
           /\ Len(output_tasks[w2].outputs) = 1

\* The same block validated by one worker that popped both outputs while
\* another worker was running.
C22_WitnessOneWorker ==
    /\ outputs_task.state = "done"
    /\ outputs_task.err = NoError
    /\ SumSenderOffsets(block.outputs) # PublicKeyDefault
    /\ \E w1, w2 \in DOMAIN output_tasks :
           /\ w1 # w2
           /\ Len(output_tasks[w1].outputs) = 2
           /\ Len(output_tasks[w2].outputs) = 0

\* Where the pair of index i is: in the queue, in the hands of a worker, or
\* in the buffer of a worker.
Places(i) ==
    {<<"queue", k, 0>> : k \in {n \in DOMAIN queue : queue[n][1] = i}}
    \cup {<<"item", w, 0>> :
             w \in {n \in DOMAIN output_tasks :
                       output_tasks[n].item # <<>> /\ output_tasks[n].item[1] = i}}
    \cup UNION {{<<"outputs", w, k>> :
                    k \in {n \in DOMAIN output_tasks[w].outputs :
                              output_tasks[w].outputs[n][1] = i}} :
                w \in DOMAIN output_tasks}

\* Every pair is in at most one place and is the output of that index.
PoppedAtMostOnce ==
    /\ \A i \in 1..Len(block.outputs) : Cardinality(Places(i)) <= 1
    /\ \A w \in DOMAIN output_tasks :
           output_tasks[w].item # <<>> =>
               output_tasks[w].item[2] = block.outputs[output_tasks[w].item[1]]

\* Only start_output_validation fills the queue; every other step leaves a
\* prefix of it.
QueueOnlyShrinks ==
    \/ pc = "start_outputs" /\ pc' = "await_outputs"
    \/ /\ Len(queue') <= Len(queue)
       /\ queue' = SubSeq(queue, 1, Len(queue'))

\* Every output of the block went through the checks of a worker.
AllOutputsVerified ==
    /\ checked.meta = 1..Len(block.outputs)
    /\ checked.dup = 1..Len(block.outputs)
    /\ checked.rp = IF bypass_range_proof_verification THEN {} ELSE 1..Len(block.outputs)

AllWorkersReturned ==
    \A w \in DOMAIN output_tasks : output_tasks[w].state = "returned"

\* C23: a pair of the queue is popped by at most one worker; the queue only
\* shrinks; when output validation succeeds the queue is empty, every worker
\* has returned and every output has passed the metadata signature check,
\* the range proof check unless bypassed and the duplicate check; no block
\* is accepted otherwise; with concurrency 0 no worker exists, output
\* validation fails with NoCoinbase and nothing is accepted; and the workers
\* of a call all return in the end.
C23_ExactlyOnceAndTerminates ==
    /\ []PoppedAtMostOnce
    /\ [][QueueOnlyShrinks]_vars
    /\ []((outputs_task.state = "done" /\ outputs_task.err = NoError) =>
              (queue = <<>> /\ AllWorkersReturned /\ AllOutputsVerified))
    /\ [](Accepted => AllOutputsVerified)
    /\ []((concurrency = 0 /\ pc \notin {"check_block_weight", "start_kernels", "start_inputs",
                                         "check_output_order", "start_outputs"}
           /\ ~(pc = "done" /\ outputs_task.state = "none")) =>
              (output_tasks = <<>> /\ ~Accepted
               /\ (outputs_task.state = "done" => outputs_task.err = Err("NoCoinbase"))))
    /\ (pc = "await_outputs") ~> []AllWorkersReturned

\* C23 witness: two workers shared the two outputs of a block that was
\* accepted; the queue is empty and both have returned.
C23_Witness ==
    /\ Accepted
    /\ Len(block.outputs) = 2
    /\ Len(output_tasks) = 2
    /\ AllWorkersReturned
    /\ queue = <<>>
    /\ \A w \in DOMAIN output_tasks : Len(output_tasks[w].outputs) = 1

\* A validator built with concurrency 0 on a block that other validators
\* accept: no worker, NoCoinbase.
C23_WitnessNoWorkers ==
    /\ concurrency = 0
    /\ Len(block.outputs) > 0
    /\ output_tasks = <<>>
    /\ queue = Enumerate(block.outputs)
    /\ pc = "done"
    /\ result = ErrResult(Err("NoCoinbase"))
    /\ checked = NoChecks

\* A worker returned with an error while its sibling had not yet popped: the
\* sibling goes on and empties the queue.
C23_WitnessAfterFailure ==
    /\ outputs_task.state = "done"
    /\ outputs_task.err # NoError
    /\ Len(output_tasks) = 2
    /\ AllWorkersReturned
    /\ queue = <<>>
    /\ pc = "done"
    /\ \E w \in DOMAIN output_tasks : Len(output_tasks[w].outputs) = 1

-----------------------------------------------------------------------------
(* Command::chunk_command of the ledger wallet (ledger_wallet.rs).         *)

MaxChunks == 258

WALLET_CLA == 128

U8Max == 255

\* u64::to_le_bytes: the 8 bytes of n, least significant first.
RECURSIVE LeBytes(_, _)
LeBytes(n, len) ==
    IF len = 0 THEN <<>> ELSE <<n % 256>> \o LeBytes(n \div 256, len - 1)

to_le_bytes(n) == LeBytes(n, 8)

\* u8::try_from(i).unwrap_or(0)
u8_try_from_or_0(i) == IF i <= U8Max THEN i ELSE 0

\* chunk_command with the index cast to u8 (i as u8), which wraps.
chunk_commandWrappingIndex(acc, instr, chunks) ==
    LET num_chunks == Len(chunks) IN
    [k \in 1..num_chunks |->
        LET i == k - 1
            more == IF i + 1 = num_chunks THEN 0 ELSE 1
            base_data == (IF i = 0 THEN to_le_bytes(acc) ELSE <<>>) \o chunks[k]
        IN [cla |-> WALLET_CLA, ins |-> instr, p1 |-> i % (U8Max + 1),
            p2 |-> more, data |-> base_data]]

\* The commands built for the chunks; i is the index of enumerate(), from 0.
chunk_command(acc, instr, chunks) ==
    LET num_chunks == Len(chunks) IN
    [k \in 1..num_chunks |->
        LET i == k - 1
            more == IF i + 1 = num_chunks THEN 0 ELSE 1
            base_data == (IF i = 0 THEN to_le_bytes(acc) ELSE <<>>) \o chunks[k]
        IN [cla |-> WALLET_CLA, ins |-> instr, p1 |-> u8_try_from_or_0(i),
            p2 |-> more, data |-> base_data]]

\* The arguments the model calls chunk_command with.
Accounts == {0, 1, 258, 16909060, 2147483647}

Instructions == {1, 2}

SmallChunks == {<<>>, <<7>>, <<8, 9>>}

\* n chunks of 0, 1 or 2 bytes that differ from their neighbours.
ManyChunks(n, seed) ==
    [k \in 1..n |-> [j \in 1..((k + seed) % 3) |-> (k * (j + seed)) % 256]]

ChunkLists ==
    SeqsUpTo(SmallChunks, 2)
    \cup {ManyChunks(n, seed) :
             n \in {3, U8Max, U8Max + 1, U8Max + 2, MaxChunks}, seed \in 0..2}

\* The validator is at rest on an empty block while the command builder is
\* called.
ChunkInit ==
    /\ Enter(Block(Header(0, Body(<<>>, <<>>, <<>>)), Body(<<>>, <<>>, <<>>)), 1, FALSE)
    /\ db = InitialDb
    /\ db_readers = 0
    /\ first = NoCall
    /\ account \in Accounts
    /\ instruction \in Instructions
    /\ data \in ChunkLists
    /\ commands = <<>>
    /\ chunk_pc = "called"

ChunkCommand ==
    /\ chunk_pc = "called"
    /\ commands' = chunk_command(account, instruction, data)
    /\ chunk_pc' = "returned"
    /\ UNCHANGED <<block, concurrency, bypass_range_proof_verification, db, db_readers, pc,
                   result, kernels_task, inputs_task, queue, queue_lock, output_tasks,
                   outputs_task, checked, first, account, instruction, data>>

ChunkNext == ChunkCommand

ChunkSpec == ChunkInit /\ [][ChunkNext]_vars

\* The number a sequence of bytes stands for, least significant byte first.
RECURSIVE FromLeBytes(_)
FromLeBytes(bytes) ==
    IF bytes = <<>> THEN 0 ELSE Head(bytes) + 256 * FromLeBytes(Tail(bytes))

\* C24: chunk_command returns one command per chunk, in chunk order; the
\* data of the first command is 8 bytes that read as the account, least
\* significant byte first, followed by the first chunk, and the data of
\* every other command is its chunk alone; p2 is 0 on the last command and
\* 1 on all others, so that a non-empty result has exactly one command with
\* p2 = 0; p1 is the index of the chunk, counted from 0, up to 255 and 0
\* above; no chunk gives no command.
C24_ChunkCommand ==
    chunk_pc = "returned" =>
        /\ Len(commands) = Len(data)
        /\ data = <<>> => commands = <<>>
        /\ \A k \in 1..Len(commands) :
               LET i == k - 1 IN
               /\ IF i = 0
                  THEN /\ Len(commands[k].data) = 8 + Len(data[k])
                       /\ \A j \in 1..8 : commands[k].data[j] \in 0..255
                       /\ FromLeBytes(SubSeq(commands[k].data, 1, 8)) = account
                       /\ SubSeq(commands[k].data, 9, Len(commands[k].data)) = data[k]
                  ELSE commands[k].data = data[k]
               /\ commands[k].p2 = IF k = Len(commands) THEN 0 ELSE 1
               /\ commands[k].p1 = IF i <= 255 THEN i ELSE 0
        /\ commands # <<>> =>
               {k \in 1..Len(commands) : commands[k].p2 = 0} = {Len(commands)}

\* C24 witness: 258 chunks; the command of index 255 has p1 = 255, those of
\* index 256 and 257 have p1 = 0, and only the last has p2 = 0.
C24_Witness ==
    /\ chunk_pc = "returned"
    /\ Len(data) = 258
    /\ Len(commands) = 258
    /\ commands[256].p1 = 255
    /\ commands[257].p1 = 0
    /\ commands[258].p1 = 0
    /\ commands[257].p2 = 1
    /\ commands[258].p2 = 0
    /\ account = 16909060
    /\ SubSeq(commands[1].data, 1, 8) = <<4, 3, 2, 1, 0, 0, 0, 0>>
    /\ Len(commands[2].data) = Len(data[2])

\* No chunk: no command.
C24_WitnessEmpty ==
    /\ chunk_pc = "returned"
    /\ data = <<>>
    /\ commands = <<>>

\* One empty chunk: one command that carries the account alone, with p2 = 0.
C24_WitnessOneChunk ==
    /\ chunk_pc = "returned"
    /\ data = <<(<<>>)>>
    /\ account = 258
    /\ commands = <<[cla |-> 128, ins |-> instruction, p1 |-> 0, p2 |-> 0,
                     data |-> <<2, 1, 0, 0, 0, 0, 0, 0>>]>>

====
